---- MODULE Spec2Model ----
(***************************************************************************)
(* McapUnindexedIterableSource: the in-memory engine that reads a whole    *)
(* unindexed MCAP stream in initialize() and then serves messageIterator   *)
(* and getBackfillMessages from the per-channel buckets built there.       *)
(***************************************************************************)
EXTENDS Integers, Sequences, FiniteSets, TLC

(* ------------------------------ bounds ------------------------------- *)

\* Records the stream delivers in one run.
MaxRecords == 4
\* Records one chunk of the stream completes.
MaxChunk == 2
\* Collision objects in the world of one planning scene message.
MaxObjects == 2
\* get_planning_scene calls in flight.
MaxPending == 2

(* ------------------------- optional values --------------------------- *)

\* `undefined` and a defined value, for the optional fields of the source.
None == <<>>
Some(v) == <<v>>
IsSome(o) == o # <<>>
Get(o) == o[1]

(* ------------------------------ JS Map ------------------------------- *)

\* A Map is the sequence of its <<key, value>> entries in insertion order.
RECURSIVE MapIndex(_, _)
MapIndex(m, k) ==
  IF m = <<>> THEN 0
  ELSE IF m[Len(m)][1] = k THEN Len(m)
  ELSE MapIndex(SubSeq(m, 1, Len(m) - 1), k)

MapHas(m, k) == MapIndex(m, k) # 0

MapGet(m, k) == IF MapHas(m, k) THEN Some(m[MapIndex(m, k)][2]) ELSE None

MapSet(m, k, v) ==
  IF MapHas(m, k) THEN [m EXCEPT ![MapIndex(m, k)] = <<k, v>>]
  ELSE Append(m, <<k, v>>)

(* ------------------------------- time -------------------------------- *)

NanoPerSec == 1000 * 1000 * 1000

fromNanoSec(nsec) == [sec |-> nsec \div NanoPerSec, nsec |-> nsec % NanoPerSec]

compare(left, right) ==
  IF left.sec - right.sec # 0 THEN left.sec - right.sec
  ELSE left.nsec - right.nsec

isLessThan(left, right) == compare(left, right) < 0

isGreaterThan(left, right) == compare(left, right) > 0

isTimeInRangeInclusive(time, start, end) ==
  ~(compare(start, time) > 0 \/ compare(end, time) < 0)

subtract(t1, t2) ==
  LET sec == t1.sec - t2.sec
      nsec == t1.nsec - t2.nsec
  IN IF nsec < 0 THEN [sec |-> sec - 1, nsec |-> nsec + NanoPerSec]
     ELSE [sec |-> sec, nsec |-> nsec]

DURATION_YEAR_SEC == 365 * 24 * 60 * 60

\* toSec(d) > DURATION_YEAR_SEC, with toSec(d) = d.sec + d.nsec * 1e-9
LongerThanYear(d) ==
  d.sec > DURATION_YEAR_SEC \/ (d.sec = DURATION_YEAR_SEC /\ d.nsec > 0)

ZeroTime == [sec |-> 0, nsec |-> 0]

(* ------------------------- the stream's records ---------------------- *)

SizeLimit == 1024 * 1024 * 1024

Sizes == {0, SizeLimit, SizeLimit + 1}

\* Log times in nanoseconds; the last one lies past a second boundary, so
\* that its nsec part is smaller than the others' while it is the latest.
LogTimes == {1, 5, NanoPerSec + 3}

Topics == {"/a", "/b"}

ChannelIds == {1, 2}

SchemaRecords ==
  [type : {"Schema"}, id : {1}, name : {"S", "T"},
   encoding : {"jsonschema"}, data : {<<1>>}]

\* A Schema record with the id that Channel records use to name no schema.
ReservedSchemaRecords ==
  [type : {"Schema"}, id : {0}, name : {"R"},
   encoding : {"jsonschema"}, data : {<<1>>}]

ChannelRecords ==
  [type : {"Channel"}, id : ChannelIds, schemaId : {0, 1}, topic : Topics,
   messageEncoding : {"json", "cbor"},
   metadata : {{}, {<<"callerid", "pub">>}}]

MessageRecords ==
  [type : {"Message"}, channelId : ChannelIds, logTime : LogTimes,
   publishTime : {2}, data : {<<7>>}]

HeaderRecords == [type : {"Header"}, profile : {"ros1"}]

MetadataRecords ==
  [type : {"Metadata"}, name : {"m"}, metadata : {{<<"k", "v">>}}]

OtherRecords == [type : {"Statistics"}]

Records ==
  SchemaRecords \cup ChannelRecords \cup MessageRecords \cup HeaderRecords
    \cup MetadataRecords \cup OtherRecords

Chunks == UNION {[1..n -> Records] : n \in 0..MaxChunk}

(* ------------------------------ state -------------------------------- *)

VARIABLES
  pc,                   \* where initialize() stands
  size,                 \* #options.size
  locked,               \* the stream's reader was taken (stream.getReader())
  nRecords,             \* records the stream delivered so far
  alerts, metadata, channelIdsWithErrors, messageCount, messagesByChannel,
  schemasById, channelInfoById, startTime, endTime, profile,
                        \* the locals of initialize()
  msgEventsByChannel,   \* #msgEventsByChannel
  start, end,           \* #start, #end
  initialization,       \* what initialize() settled with
  detached,             \* payload buffers of the buckets a transfer detached
  call,                 \* the query whose outcome the caller holds
  seenSchemas,          \* the Schema records the stream delivered so far
  delivered,            \* what else the stream delivered so far (see NoneDelivered)
  kept,                 \* a messageIterator outcome the caller kept to compare
  layers,               \* renderer.config.layers: "none", or the planning
                        \* scene layer "visible" or "hidden"
  serviceClient,        \* the extension has a service client
  currentScene,         \* currentScene is set
  initialSceneFetched, fetchingInitialScene,
  renderables,          \* the extension's renderables, by object id
  objectHashes,         \* objectHashes, by object id
  pending,              \* get_planning_scene calls in flight
  handled,              \* the planning scene message being looked at
  builder,              \* what the function of initRenderStateBuilder() keeps
  built                 \* the buildRenderState call the panel looks at

locals ==
  <<alerts, metadata, channelIdsWithErrors, messageCount, messagesByChannel,
    schemasById, channelInfoById, startTime, endTime, profile>>

sourceVars ==
  <<pc, size, locked, nRecords, locals, msgEventsByChannel, start, end,
    initialization, detached, call, seenSchemas, delivered, kept>>

sceneVars ==
  <<layers, serviceClient, currentScene, initialSceneFetched,
    fetchingInitialScene, renderables, objectHashes, pending, handled>>

renderVars == <<builder, built>>

vars == <<sourceVars, sceneVars, renderVars>>

\* The ids of the collision objects of the planning scene messages.
ObjectIds == {"a", "b"}

\* A map over the object ids without an entry.
NoRenderables == [id \in ObjectIds |-> None]

\* The closure of initRenderStateBuilder() before the first call: no seek
\* time, no shared panel state, an empty render state.
NewBuilder ==
  [prevSeekTime |-> <<>>, prevSharedPanelState |-> <<>>,
   prevRenderState |-> [didSeek |-> <<>>, parameters |-> <<>>,
                        sharedPanelState |-> <<>>, services |-> <<>>],
   shouldRender |-> FALSE]

(* --------------------------- collaborators --------------------------- *)

\* lodash isEqual: deep structural equality.
isEqual(a, b) == a = b

\* parseChannel builds the decoding plan of a channel, or throws: it returns
\* [error, datatypes], error = "" on success.
parseChannel(messageEncoding, schema) ==
  IF messageEncoding = "json"
  THEN IF IsSome(schema) /\ Get(schema).encoding # "jsonschema"
       THEN [error |-> "unsupported schema encoding", datatypes |-> <<>>]
       ELSE [error |-> "",
             datatypes |-> IF IsSome(schema)
                           THEN << <<Get(schema).name, Get(schema).data>> >>
                           ELSE <<>>]
  ELSE [error |-> "unsupported encoding", datatypes |-> <<>>]

(* ---------------------------- processRecord -------------------------- *)

\* The locals of initialize() as one value, and `thrown`, the Error that
\* processRecord threw (None while none was thrown).
NewLocals ==
  [alerts |-> <<>>, metadata |-> <<>>, channelIdsWithErrors |-> {},
   messageCount |-> 0, messagesByChannel |-> <<>>, schemasById |-> <<>>,
   channelInfoById |-> <<>>, startTime |-> None, endTime |-> None,
   profile |-> None, thrown |-> None]

Error(message, id) == [message |-> message, id |-> id]

Throw(s, message, id) == [s EXCEPT !.thrown = Some(Error(message, id))]

Alert(severity, message, topic, channel, error) ==
  [severity |-> severity, message |-> message, topic |-> topic,
   channel |-> channel, error |-> error]

\* processSchema without the comparison: a later record replaces the entry.
processSchemaLastWins(s, record) ==
  [s EXCEPT !.schemasById = MapSet(@, record.id, record)]

\* processSchema taking every second record of an id for an error.
processSchemaOnce(s, record) ==
  IF MapHas(s.schemasById, record.id)
  THEN Throw(s, "differing schemas for id", record.id)
  ELSE [s EXCEPT !.schemasById = MapSet(@, record.id, record)]

processSchema(s, record) ==
  LET existingSchema == MapGet(s.schemasById, record.id)
  IN IF IsSome(existingSchema) /\ ~isEqual(Get(existingSchema), record)
     THEN Throw(s, "differing schemas for id", record.id)
     ELSE [s EXCEPT !.schemasById = MapSet(@, record.id, record)]

\* setChannelInfo keeping the name of the schema only.
setChannelInfoNameOnly(s, record, parsedChannel, schema) ==
  [s EXCEPT
     !.channelInfoById =
        MapSet(@, record.id,
               [channel |-> record,
                parsedChannel |-> parsedChannel,
                schemaName |-> IF IsSome(schema) THEN Some(Get(schema).name) ELSE None,
                schemaEncoding |-> None,
                schemaData |-> None]),
     !.messagesByChannel = MapSet(@, record.id, <<>>)]

\* The channel is registered with its decoding plan and an empty bucket.
setChannelInfo(s, record, parsedChannel, schema) ==
  [s EXCEPT
     !.channelInfoById =
        MapSet(@, record.id,
               [channel |-> record,
                parsedChannel |-> parsedChannel,
                schemaName |-> IF IsSome(schema) THEN Some(Get(schema).name) ELSE None,
                schemaEncoding |-> IF IsSome(schema) THEN Some(Get(schema).encoding) ELSE None,
                schemaData |-> IF IsSome(schema) THEN Some(Get(schema).data) ELSE None]),
     !.messagesByChannel = MapSet(@, record.id, <<>>)]

\* tryParseChannel without the catch: the error of parseChannel leaves
\* processRecord.
tryParseChannelFatal(s, record, schema) ==
  LET parsedChannel == parseChannel(record.messageEncoding, schema)
  IN IF parsedChannel.error = ""
     THEN setChannelInfo(s, record, parsedChannel, schema)
     ELSE Throw(s, parsedChannel.error, record.id)

\* tryParseChannel with the bucket allocated before the decoding plan is
\* built: a channel that fails has a bucket too.
tryParseChannelBucketFirst(s, record, schema) ==
  LET parsedChannel == parseChannel(record.messageEncoding, schema)
  IN IF parsedChannel.error = ""
     THEN setChannelInfo(s, record, parsedChannel, schema)
     ELSE [s EXCEPT
             !.messagesByChannel = MapSet(@, record.id, <<>>),
             !.channelIdsWithErrors = @ \cup {record.id},
             !.alerts = Append(@, Alert("error", "Error in topic", record.topic,
                                        record.id, parsedChannel.error))]

\* The try block on a Channel record and its catch: the decoding plan is built
\* and the channel registered, or the id is marked as errored and an alert is
\* added.
tryParseChannel(s, record, schema) ==
  LET parsedChannel == parseChannel(record.messageEncoding, schema)
  IN IF parsedChannel.error = ""
     THEN setChannelInfo(s, record, parsedChannel, schema)
     ELSE [s EXCEPT
             !.channelIdsWithErrors = @ \cup {record.id},
             !.alerts = Append(@, Alert("error", "Error in topic", record.topic,
                                        record.id, parsedChannel.error))]

\* registerChannel without the test of the schema: a channel whose schema did
\* not come yet is parsed without one.
registerChannelUnresolved(s, record) ==
  IF record.id \in s.channelIdsWithErrors
  THEN s
  ELSE tryParseChannel(s, record, MapGet(s.schemasById, record.schemaId))

\* registerChannel without the test of the errored set: every Channel record
\* of an id without entry is parsed again.
registerChannelRetry(s, record) ==
  LET schema == MapGet(s.schemasById, record.schemaId)
  IN IF record.schemaId # 0 /\ ~IsSome(schema)
     THEN Throw(s, "channel with schema id but no prior schema", record.schemaId)
     ELSE tryParseChannel(s, record, schema)

\* A Channel record of an id that has no entry.
registerChannel(s, record) ==
  LET schema == MapGet(s.schemasById, record.schemaId)
  IN IF record.id \in s.channelIdsWithErrors
     THEN s
     ELSE IF record.schemaId # 0 /\ ~IsSome(schema)
     THEN Throw(s, "channel with schema id but no prior schema", record.schemaId)
     ELSE tryParseChannel(s, record, schema)

\* processChannel without the comparison: the first record of an id wins and
\* a differing later one is ignored.
processChannelFirstWins(s, record) ==
  IF MapHas(s.channelInfoById, record.id) THEN s ELSE registerChannel(s, record)

\* processChannel without the break after the comparison: an identical
\* record of a registered channel registers it again.
processChannelAgain(s, record) ==
  LET existingInfo == MapGet(s.channelInfoById, record.id)
  IN IF IsSome(existingInfo) /\ ~isEqual(Get(existingInfo).channel, record)
     THEN Throw(s, "differing channel infos for id", record.id)
     ELSE registerChannel(s, record)

processChannel(s, record) ==
  LET existingInfo == MapGet(s.channelInfoById, record.id)
  IN IF IsSome(existingInfo)
     THEN IF ~isEqual(Get(existingInfo).channel, record)
          THEN Throw(s, "differing channel infos for id", record.id)
          ELSE s
     ELSE registerChannel(s, record)

\* pushMessage taking the file order for the time order: the first message
\* sets the start and every message the end.
pushMessageInFileOrder(s, record) ==
  LET channelId == record.channelId
      channelInfo == MapGet(s.channelInfoById, channelId)
      messages == MapGet(s.messagesByChannel, channelId)
      receiveTime == fromNanoSec(record.logTime)
      msgEvent ==
        [topic |-> Get(channelInfo).channel.topic,
         receiveTime |-> receiveTime,
         publishTime |-> fromNanoSec(record.publishTime),
         message |-> [buf |-> s.messageCount + 1, bytes |-> record.data],
         sizeInBytes |-> Len(record.data),
         schemaName |-> IF IsSome(Get(channelInfo).schemaName)
                        THEN Get(Get(channelInfo).schemaName) ELSE ""]
  IN [s EXCEPT
        !.messageCount = @ + 1,
        !.startTime = IF ~IsSome(@) THEN Some(receiveTime) ELSE @,
        !.endTime = Some(receiveTime),
        !.messagesByChannel =
           MapSet(@, channelId, Append(Get(messages), msgEvent))]

\* A Message record of a registered channel: counted, the bounds widened, the
\* event appended to the channel's bucket.
pushMessage(s, record) ==
  LET channelId == record.channelId
      channelInfo == MapGet(s.channelInfoById, channelId)
      messages == MapGet(s.messagesByChannel, channelId)
      receiveTime == fromNanoSec(record.logTime)
      msgEvent ==
        [topic |-> Get(channelInfo).channel.topic,
         receiveTime |-> receiveTime,
         publishTime |-> fromNanoSec(record.publishTime),
         message |-> [buf |-> s.messageCount + 1, bytes |-> record.data],
         sizeInBytes |-> Len(record.data),
         schemaName |-> IF IsSome(Get(channelInfo).schemaName)
                        THEN Get(Get(channelInfo).schemaName) ELSE ""]
  IN [s EXCEPT
        !.messageCount = @ + 1,
        !.startTime = IF ~IsSome(@) \/ isLessThan(receiveTime, Get(@))
                      THEN Some(receiveTime) ELSE @,
        !.endTime = IF ~IsSome(@) \/ isGreaterThan(receiveTime, Get(@))
                    THEN Some(receiveTime) ELSE @,
        !.messagesByChannel =
           MapSet(@, channelId, Append(Get(messages), msgEvent))]

\* processMessage dropping every message without channel info silently.
processMessageDropUnknown(s, record) ==
  IF ~MapHas(s.channelInfoById, record.channelId)
       \/ ~MapHas(s.messagesByChannel, record.channelId)
  THEN s
  ELSE pushMessage(s, record)

\* processMessage with the count taken before the channel is looked up: the
\* dropped message of an errored channel is counted too.
processMessageCountFirst(s, record) ==
  LET channelId == record.channelId
      channelInfo == MapGet(s.channelInfoById, channelId)
      messages == MapGet(s.messagesByChannel, channelId)
  IN IF ~IsSome(channelInfo) \/ ~IsSome(messages)
     THEN IF channelId \in s.channelIdsWithErrors
          THEN [s EXCEPT !.messageCount = @ + 1]
          ELSE Throw(s, "message for channel with no prior channel info", channelId)
     ELSE pushMessage(s, record)

processMessage(s, record) ==
  LET channelId == record.channelId
      channelInfo == MapGet(s.channelInfoById, channelId)
      messages == MapGet(s.messagesByChannel, channelId)
  IN IF ~IsSome(channelInfo) \/ ~IsSome(messages)
     THEN IF channelId \in s.channelIdsWithErrors
          THEN s
          ELSE Throw(s, "message for channel with no prior channel info", channelId)
     ELSE pushMessage(s, record)

processRecord(s, record) ==
  CASE record.type = "Header" -> [s EXCEPT !.profile = Some(record.profile)]
    [] record.type = "Metadata" ->
         [s EXCEPT !.metadata =
            Append(@, [name |-> record.name, metadata |-> record.metadata])]
    [] record.type = "Schema" -> processSchema(s, record)
    [] record.type = "Channel" -> processChannel(s, record)
    [] record.type = "Message" -> processMessage(s, record)
    [] OTHER -> s

\* The inner loop as a single nextRecord(): only the first record of a
\* chunk is processed before the next chunk is awaited.
drainFirstRecord(s, chunk) ==
  IF chunk = <<>> \/ IsSome(s.thrown) THEN s
  ELSE processRecord(s, Head(chunk))

\* The inner loop of initialize(): every record the reader has is processed,
\* up to the first one that throws.
RECURSIVE drainRecords(_, _)
drainRecords(s, chunk) ==
  IF chunk = <<>> \/ IsSome(s.thrown) THEN s
  ELSE drainRecords(processRecord(s, Head(chunk)), Tail(chunk))
\* What the stream delivered, kept beside the engine to state what a stream
\* contains: the ids of the Schema records, the first Channel record of each
\* id and the order in which these came (`order`, a sequence of ids), the ids
\* of which a Channel record differing from the first came, the
\* ids of the Channel records that named a schema no earlier Schema record
\* had, the channel ids of the Message records that came before any Channel
\* record of their id, and the number of Message records of each channel id.
\* `failing` holds the channel ids whose first Channel record has a schema
\* that came (or none) and no decoding plan; `without` holds the locals
\* processRecord leaves when given the stream without the Channel and Message
\* records of those ids (only `thrown` once one of them threw). `repeated`
\* holds <<type, id>> of the Schema and Channel records that came again just
\* as they had come first and `repeats` their number, `schemas` the first
\* Schema record of each id, and
\* `resolved` for each channel id the Schema record that had come with the
\* schema id of its first Channel record when that record came. `records`
\* holds the records themselves in their order where a read keeps them
\* (ReadChunkRecorded).
NoneDelivered ==
  [schemaIds |-> {}, channels |-> {}, redefined |-> {}, unresolved |-> {},
   orphans |-> {}, messages |-> [id \in ChannelIds |-> 0], failing |-> {},
   without |-> NewLocals, order |-> <<>>, schemas |-> {}, repeated |-> {},
   resolved |-> [id \in ChannelIds |-> None], repeats |-> 0,
   records |-> <<>>]

RECURSIVE deliver(_, _)
deliver(d, chunk) ==
  IF chunk = <<>> THEN d
  ELSE LET record == Head(chunk)
           known == {c \in d.channels : c.id = record.id}
           facts ==
             CASE record.type = "Schema" ->
                    [d EXCEPT
                       !.schemaIds = @ \cup {record.id},
                       !.schemas =
                          IF record.id \in d.schemaIds THEN @ ELSE @ \cup {record},
                       !.repeated =
                          IF record \in d.schemas
                          THEN @ \cup {<<"Schema", record.id>>} ELSE @,
                       !.repeats = IF record \in d.schemas THEN @ + 1 ELSE @]
               [] record.type = "Channel" ->
                    [d EXCEPT
                       !.channels = IF known = {} THEN @ \cup {record} ELSE @,
                       !.order = IF known = {} THEN Append(@, record.id) ELSE @,
                       !.resolved[record.id] =
                          IF known = {} /\ record.schemaId \in d.schemaIds
                          THEN Some(CHOOSE r \in d.schemas : r.id = record.schemaId)
                          ELSE @,
                       !.repeated =
                          IF record \in known
                          THEN @ \cup {<<"Channel", record.id>>} ELSE @,
                       !.repeats = IF record \in known THEN @ + 1 ELSE @,
                       !.redefined =
                          IF known # {} /\ record \notin known
                          THEN @ \cup {record.id} ELSE @,
                       !.unresolved =
                          IF record.schemaId # 0 /\ record.schemaId \notin d.schemaIds
                          THEN @ \cup {record.id} ELSE @]
               [] record.type = "Message" ->
                    [d EXCEPT
                       !.orphans =
                          IF \A c \in d.channels : c.id # record.channelId
                          THEN @ \cup {record.channelId} ELSE @,
                       !.messages[record.channelId] = @ + 1]
               [] OTHER -> d
           schema ==
             IF record.type = "Channel"
             THEN MapGet(d.without.schemasById, record.schemaId) ELSE None
           fails ==
             /\ record.type = "Channel"
             /\ known = {}
             /\ record.schemaId = 0 \/ IsSome(schema)
             /\ parseChannel(record.messageEncoding, schema).error # ""
           ofFailing ==
             \/ record.type = "Channel" /\ record.id \in d.failing
             \/ record.type = "Message" /\ record.channelId \in d.failing
           after == processRecord(d.without, record)
           next ==
             [facts EXCEPT
                !.failing = IF fails THEN @ \cup {record.id} ELSE @,
                !.without =
                   IF fails \/ ofFailing \/ IsSome(d.without.thrown) THEN @
                   ELSE IF IsSome(after.thrown)
                   THEN [NewLocals EXCEPT !.thrown = after.thrown]
                   ELSE after]
       IN deliver(next, Tail(chunk))

(* ------------------- initialize(): post-processing ------------------- *)

\* channel.metadata.get(key)
MetadataGet(md, key) ==
  IF \E p \in md : p[1] = key
  THEN Some((CHOOSE p \in md : p[1] = key)[2])
  ELSE None

\* publisherId without the look at the channel's metadata.
publisherIdFromId(channel) == ToString(channel.id)

publisherId(channel) ==
  IF IsSome(MetadataGet(channel.metadata, "callerid"))
  THEN Get(MetadataGet(channel.metadata, "callerid"))
  ELSE ToString(channel.id)

RECURSIVE SetAll(_, _)
SetAll(m, entries) ==
  IF entries = <<>> THEN m
  ELSE SetAll(MapSet(m, Head(entries)[1], Head(entries)[2]), Tail(entries))

\* The loop over channelInfoById.values(), up to its n-th entry.
RECURSIVE Summary(_, _)
Summary(s, n) ==
  IF n = 0
  THEN [topics |-> <<>>, topicStats |-> <<>>, datatypes |-> <<>>,
        publishersByTopic |-> <<>>]
  ELSE LET acc == Summary(s, n - 1)
           info == s.channelInfoById[n][2]
           channel == info.channel
           numMessages == MapGet(s.messagesByChannel, channel.id)
           publishers == MapGet(acc.publishersByTopic, channel.topic)
       IN [topics |->
             Append(acc.topics,
                    [name |-> channel.topic,
                     messageEncoding |-> channel.messageEncoding,
                     schemaName |-> info.schemaName,
                     schemaData |-> info.schemaData,
                     schemaEncoding |-> info.schemaEncoding]),
           topicStats |->
             IF IsSome(numMessages)
             THEN MapSet(acc.topicStats, channel.topic,
                         [numMessages |-> Len(Get(numMessages))])
             ELSE acc.topicStats,
           publishersByTopic |->
             MapSet(acc.publishersByTopic, channel.topic,
                    (IF IsSome(publishers) THEN Get(publishers) ELSE {})
                      \cup {publisherId(channel)}),
           datatypes |-> SetAll(acc.datatypes, info.parsedChannel.datatypes)]

startOf(s) == IF IsSome(s.startTime) THEN Get(s.startTime) ELSE ZeroTime

endOf(s) == IF IsSome(s.endTime) THEN Get(s.endTime) ELSE ZeroTime

NoTopicAlert(severity, message) == Alert(severity, message, "", 0, "")

\* finalAlerts with the "unindexed" warning whatever the message count.
finalAlertsUnindexed(s) ==
  (IF LongerThanYear(subtract(endOf(s), startOf(s)))
   THEN Append(s.alerts,
               NoTopicAlert("warn", "This file has an abnormally long duration."))
   ELSE s.alerts)
  \o <<NoTopicAlert("warn",
         "This file is unindexed. Unindexed files may have degraded performance.")>>

\* finalAlerts with the "unindexed" warning after the "no messages" warning.
finalAlertsBoth(s) ==
  (IF LongerThanYear(subtract(endOf(s), startOf(s)))
   THEN Append(s.alerts,
               NoTopicAlert("warn", "This file has an abnormally long duration."))
   ELSE s.alerts)
  \o (IF s.messageCount = 0
      THEN <<NoTopicAlert("warn", "This file contains no messages.")>>
      ELSE <<>>)
  \o <<NoTopicAlert("warn",
         "This file is unindexed. Unindexed files may have degraded performance.")>>

finalAlerts(s) ==
  (IF LongerThanYear(subtract(endOf(s), startOf(s)))
   THEN Append(s.alerts,
               NoTopicAlert("warn", "This file has an abnormally long duration."))
   ELSE s.alerts)
  \o <<IF s.messageCount = 0
       THEN NoTopicAlert("warn", "This file contains no messages.")
       ELSE NoTopicAlert("warn",
              "This file is unindexed. Unindexed files may have degraded performance.")>>

InitializationOf(s) ==
  LET sum == Summary(s, Len(s.channelInfoById))
  IN [start |-> startOf(s), end |-> endOf(s), topics |-> sum.topics,
      datatypes |-> sum.datatypes, profile |-> s.profile,
      alerts |-> finalAlerts(s), publishersByTopic |-> sum.publishersByTopic,
      topicStats |-> sum.topicStats, metadata |-> s.metadata]

(* ------------------------------ queries ------------------------------ *)

\* The bytes a payload buffer holds now: none once a transfer detached it.
Bytes(message) == IF message.buf \in detached THEN <<>> ELSE message.bytes

\* No copy: the event handed out shares the bucket's payload buffer.
sharedEvent(msgEvent) == msgEvent

\* A deep copy: the payload is a buffer of its own (buf 0), which no bucket holds.
structuredClone(msgEvent) ==
  [msgEvent EXCEPT !.message = [buf |-> 0, bytes |-> Bytes(msgEvent.message)]]

\* Array.prototype.sort by receiveTime, which is stable: an element goes
\* behind every element that does not compare greater.
RECURSIVE Insert(_, _)
Insert(sorted, x) ==
  IF sorted = <<>> THEN <<x>>
  ELSE IF compare(sorted[Len(sorted)].msgEvent.receiveTime, x.msgEvent.receiveTime) <= 0
       THEN Append(sorted, x)
       ELSE Append(Insert(SubSeq(sorted, 1, Len(sorted) - 1), x), sorted[Len(sorted)])

\* sort left out: the result messages stay in scan order.
unsorted(a) == a

\* A sort by receiveTime that is not stable: an element goes before the
\* elements that compare equal to it.
RECURSIVE InsertBeforeEqual(_, _)
InsertBeforeEqual(sorted, x) ==
  IF sorted = <<>> THEN <<x>>
  ELSE IF compare(sorted[Len(sorted)].msgEvent.receiveTime, x.msgEvent.receiveTime) < 0
       THEN Append(sorted, x)
       ELSE Append(InsertBeforeEqual(SubSeq(sorted, 1, Len(sorted) - 1), x),
                   sorted[Len(sorted)])

RECURSIVE sortUnstable(_)
sortUnstable(a) ==
  IF a = <<>> THEN <<>>
  ELSE InsertBeforeEqual(sortUnstable(SubSeq(a, 1, Len(a) - 1)), a[Len(a)])

RECURSIVE sort(_)
sort(a) == IF a = <<>> THEN <<>> ELSE Insert(sort(SubSeq(a, 1, Len(a) - 1)), a[Len(a)])

\* SelectEvents with an exclusive range: an event at start or at end is skipped.
RECURSIVE SelectEventsExclusive(_, _, _, _, _)
SelectEventsExclusive(channelId, msgEvents, topics, s, e) ==
  IF msgEvents = <<>> THEN <<>>
  ELSE (IF compare(s, Head(msgEvents).receiveTime) < 0
           /\ compare(Head(msgEvents).receiveTime, e) < 0
           /\ Head(msgEvents).topic \in topics
        THEN <<[type |-> "message-event", connectionId |-> channelId,
                msgEvent |-> structuredClone(Head(msgEvents))]>>
        ELSE <<>>)
       \o SelectEventsExclusive(channelId, Tail(msgEvents), topics, s, e)

\* SelectEvents without the test against end.
RECURSIVE SelectEventsNoEnd(_, _, _, _, _)
SelectEventsNoEnd(channelId, msgEvents, topics, s, e) ==
  IF msgEvents = <<>> THEN <<>>
  ELSE (IF compare(s, Head(msgEvents).receiveTime) <= 0
           /\ Head(msgEvents).topic \in topics
        THEN <<[type |-> "message-event", connectionId |-> channelId,
                msgEvent |-> structuredClone(Head(msgEvents))]>>
        ELSE <<>>)
       \o SelectEventsNoEnd(channelId, Tail(msgEvents), topics, s, e)

\* The events of one bucket that messageIterator selects, as result messages.
RECURSIVE SelectEvents(_, _, _, _, _)
SelectEvents(channelId, msgEvents, topics, s, e) ==
  IF msgEvents = <<>> THEN <<>>
  ELSE (IF isTimeInRangeInclusive(Head(msgEvents).receiveTime, s, e)
           /\ Head(msgEvents).topic \in topics
        THEN <<[type |-> "message-event", connectionId |-> channelId,
                msgEvent |-> structuredClone(Head(msgEvents))]>>
        ELSE <<>>)
       \o SelectEvents(channelId, Tail(msgEvents), topics, s, e)

RECURSIVE ScanBuckets(_, _, _, _)
ScanBuckets(buckets, topics, s, e) ==
  IF buckets = <<>> THEN <<>>
  ELSE SelectEvents(Head(buckets)[1], Head(buckets)[2], topics, s, e)
       \o ScanBuckets(Tail(buckets), topics, s, e)

\* resultMessages taking an empty topic set for a request of every topic.
resultMessagesOfAll(args) ==
  LET s == IF IsSome(args.start) THEN args.start ELSE start
      e == IF IsSome(args.end) THEN args.end ELSE end
  IN IF ~IsSome(s) \/ ~IsSome(e) THEN <<>>
     ELSE sort(ScanBuckets(Get(msgEventsByChannel),
                           IF args.topics = {} THEN Topics ELSE args.topics,
                           Get(s), Get(e)))

\* What messageIterator(args) yields once #msgEventsByChannel is set.
resultMessages(args) ==
  LET s == IF IsSome(args.start) THEN args.start ELSE start
      e == IF IsSome(args.end) THEN args.end ELSE end
  IN IF args.topics = {} \/ ~IsSome(s) \/ ~IsSome(e) THEN <<>>
     ELSE sort(ScanBuckets(Get(msgEventsByChannel), args.topics, Get(s), Get(e)))

\* BackfillEvents without the test against args.time.
RECURSIVE BackfillEventsAnyTime(_, _, _)
BackfillEventsAnyTime(byTopic, msgEvents, args) ==
  IF msgEvents = <<>> THEN byTopic
  ELSE BackfillEventsAnyTime(
         IF Head(msgEvents).topic \in args.topics
         THEN MapSet(byTopic, Head(msgEvents).topic, structuredClone(Head(msgEvents)))
         ELSE byTopic,
         Tail(msgEvents), args)

\* BackfillEvents collecting into an array: every qualifying event is kept.
RECURSIVE BackfillEventsAll(_, _, _)
BackfillEventsAll(byTopic, msgEvents, args) ==
  IF msgEvents = <<>> THEN byTopic
  ELSE BackfillEventsAll(
         IF compare(Head(msgEvents).receiveTime, args.time) <= 0
            /\ Head(msgEvents).topic \in args.topics
         THEN Append(byTopic, <<Head(msgEvents).topic, structuredClone(Head(msgEvents))>>)
         ELSE byTopic,
         Tail(msgEvents), args)

\* BackfillEvents storing the bucket's own event instead of a copy of it.
RECURSIVE BackfillEventsShared(_, _, _)
BackfillEventsShared(byTopic, msgEvents, args) ==
  IF msgEvents = <<>> THEN byTopic
  ELSE BackfillEventsShared(
         IF compare(Head(msgEvents).receiveTime, args.time) <= 0
            /\ Head(msgEvents).topic \in args.topics
         THEN MapSet(byTopic, Head(msgEvents).topic, sharedEvent(Head(msgEvents)))
         ELSE byTopic,
         Tail(msgEvents), args)

\* The events of getBackfillMessages' scan, in msgEventsByTopic.
RECURSIVE BackfillEvents(_, _, _)
BackfillEvents(byTopic, msgEvents, args) ==
  IF msgEvents = <<>> THEN byTopic
  ELSE BackfillEvents(
         IF compare(Head(msgEvents).receiveTime, args.time) <= 0
            /\ Head(msgEvents).topic \in args.topics
         THEN MapSet(byTopic, Head(msgEvents).topic, structuredClone(Head(msgEvents)))
         ELSE byTopic,
         Tail(msgEvents), args)

RECURSIVE BackfillBuckets(_, _, _)
BackfillBuckets(byTopic, buckets, args) ==
  IF buckets = <<>> THEN byTopic
  ELSE BackfillBuckets(BackfillEvents(byTopic, Head(buckets)[2], args),
                       Tail(buckets), args)

\* What getBackfillMessages(args) returns once #msgEventsByChannel is set.
backfillMessages(args) ==
  LET msgEventsByTopic == BackfillBuckets(<<>>, Get(msgEventsByChannel), args)
  IN [i \in 1..Len(msgEventsByTopic) |-> msgEventsByTopic[i][2]]

QueryTimes == {fromNanoSec(1), fromNanoSec(5)}

IteratorArgs ==
  [topics : SUBSET Topics, start : {None, Some(fromNanoSec(5))},
   end : {None, Some(fromNanoSec(5))}]

BackfillArgs == [topics : SUBSET Topics, time : QueryTimes]

NotCompleted == Error("initialization not completed", 0)
(* ------------------------------ actions ------------------------------ *)

Locals ==
  [alerts |-> alerts, metadata |-> metadata,
   channelIdsWithErrors |-> channelIdsWithErrors, messageCount |-> messageCount,
   messagesByChannel |-> messagesByChannel, schemasById |-> schemasById,
   channelInfoById |-> channelInfoById, startTime |-> startTime,
   endTime |-> endTime, profile |-> profile, thrown |-> None]

SetLocals(s) ==
  /\ alerts' = s.alerts
  /\ metadata' = s.metadata
  /\ channelIdsWithErrors' = s.channelIdsWithErrors
  /\ messageCount' = s.messageCount
  /\ messagesByChannel' = s.messagesByChannel
  /\ schemasById' = s.schemasById
  /\ channelInfoById' = s.channelInfoById
  /\ startTime' = s.startTime
  /\ endTime' = s.endTime
  /\ profile' = s.profile

Pending == [status |-> "pending", value |-> None, error |-> None]

NoCall == [op |-> "none", args |-> None, error |-> None, value |-> <<>>]

\* The caller has taken the outcome of its last query. `call` holds a query's
\* outcome for one step: the engine never reads it, and the caller takes it
\* (Deliver) before anything else happens.
Taken == call = NoCall

Init ==
  /\ pc = "idle"
  /\ size \in Sizes
  /\ locked = FALSE
  /\ nRecords = 0
  /\ alerts = <<>>
  /\ metadata = <<>>
  /\ channelIdsWithErrors = {}
  /\ messageCount = 0
  /\ messagesByChannel = <<>>
  /\ schemasById = <<>>
  /\ channelInfoById = <<>>
  /\ startTime = None
  /\ endTime = None
  /\ profile = None
  /\ msgEventsByChannel = None
  /\ start = None
  /\ end = None
  /\ initialization = Pending
  /\ detached = {}
  /\ call = NoCall
  /\ seenSchemas = {}
  /\ delivered = NoneDelivered
  /\ kept = None
  /\ layers = "none"
  /\ serviceClient = TRUE
  /\ currentScene = FALSE
  /\ initialSceneFetched = FALSE
  /\ fetchingInitialScene = FALSE
  /\ renderables = NoRenderables
  /\ objectHashes = NoRenderables
  /\ pending = 0
  /\ handled = None
  /\ builder = NewBuilder
  /\ built = None

\* initialize() rejects: the promise carries the error, the locals are gone.
Reject(error) ==
  /\ pc' = "failed"
  /\ initialization' = [status |-> "rejected", value |-> None, error |-> Some(error)]
  /\ SetLocals(NewLocals)

\* Initialize rejecting a declared size of exactly the limit too.
InitializeFromLimit ==
  /\ Taken
  /\ pc = "idle"
  /\ IF size >= SizeLimit
     THEN /\ Reject(Error("unindexed files are limited to 1GB", 0))
     ELSE /\ pc' = "loadDecompressHandlers"
          /\ UNCHANGED <<initialization, locals>>
  /\ UNCHANGED <<size, locked, nRecords, msgEventsByChannel, start, end,
                 detached, call, seenSchemas, delivered, kept>>
  /\ UNCHANGED <<sceneVars, renderVars>>

\* initialize(), up to its first await.
Initialize ==
  /\ Taken
  /\ pc = "idle"
  /\ IF size > SizeLimit
     THEN /\ Reject(Error("unindexed files are limited to 1GB", 0))
     ELSE /\ pc' = "loadDecompressHandlers"
          /\ UNCHANGED <<initialization, locals>>
  /\ UNCHANGED <<size, locked, nRecords, msgEventsByChannel, start, end,
                 detached, call, seenSchemas, delivered, kept>>
  /\ UNCHANGED <<sceneVars, renderVars>>

\* LoadDecompressHandlers with the buckets published as soon as their map is
\* made, before the stream is read.
LoadDecompressHandlersPublishing ==
  /\ Taken
  /\ pc = "loadDecompressHandlers"
  /\ \/ /\ pc' = "read"
        /\ locked' = TRUE
        /\ msgEventsByChannel' = Some(messagesByChannel)
        /\ UNCHANGED <<initialization, locals>>
     \/ /\ Reject(Error("decompress handlers failed to load", 0))
        /\ UNCHANGED <<locked, msgEventsByChannel>>
  /\ UNCHANGED <<size, nRecords, start, end, detached, call, seenSchemas, delivered, kept>>
  /\ UNCHANGED <<sceneVars, renderVars>>

\* loadDecompressHandlers() settles; on success the stream's reader is taken
\* and the first read() awaited.
LoadDecompressHandlers ==
  /\ Taken
  /\ pc = "loadDecompressHandlers"
  /\ \/ /\ pc' = "read"
        /\ locked' = TRUE
        /\ UNCHANGED <<initialization, locals>>
     \/ /\ Reject(Error("decompress handlers failed to load", 0))
        /\ UNCHANGED locked
  /\ UNCHANGED <<size, nRecords, msgEventsByChannel, start, end, detached, call, seenSchemas, delivered, kept>>
  /\ UNCHANGED <<sceneVars, renderVars>>

\* Read with the buckets published after every chunk, while initialize() is
\* still to await the next one.
ReadPublishing(chunk) ==
  /\ Taken
  /\ pc = "read"
  /\ nRecords + Len(chunk) <= MaxRecords
  /\ size = 0 => chunk = <<>>
  /\ nRecords' = nRecords + Len(chunk)
  /\ seenSchemas' =
       seenSchemas \cup {chunk[i] : i \in {j \in 1..Len(chunk) : chunk[j].type = "Schema"}}
  /\ LET s == drainRecords(Locals, chunk)
     IN IF IsSome(s.thrown)
        THEN Reject(Get(s.thrown)) /\ UNCHANGED msgEventsByChannel
        ELSE /\ SetLocals(s)
             /\ msgEventsByChannel' = Some(s.messagesByChannel)
             /\ UNCHANGED <<pc, initialization>>
  /\ UNCHANGED <<size, locked, start, end, detached, call, kept>>
  /\ UNCHANGED <<sceneVars, renderVars>>

\* read() resolves with `chunk`: the reader gets it and every record it
\* completes is processed. A stream that declares no bytes delivers no record.
Read(chunk) ==
  /\ Taken
  /\ pc = "read"
  /\ nRecords + Len(chunk) <= MaxRecords
  /\ size = 0 => chunk = <<>>
  /\ nRecords' = nRecords + Len(chunk)
  /\ seenSchemas' =
       seenSchemas \cup {chunk[i] : i \in {j \in 1..Len(chunk) : chunk[j].type = "Schema"}}
  /\ LET s == drainRecords(Locals, chunk)
     IN IF IsSome(s.thrown)
        THEN Reject(Get(s.thrown))
        ELSE /\ SetLocals(s)
             /\ UNCHANGED <<pc, initialization>>
  /\ UNCHANGED <<size, locked, msgEventsByChannel, start, end, detached, call,
                 kept>>
  /\ UNCHANGED <<sceneVars, renderVars>>

\* read() resolves with a chunk, one of `chunks`.
ReadChunk(chunks) ==
  /\ pc = "read"
  /\ \E chunk \in chunks : Read(chunk) /\ UNCHANGED delivered

\* The same, with the record of what the stream delivered kept.
ReadChunkWatched(chunks) ==
  /\ pc = "read"
  /\ \E chunk \in chunks : Read(chunk) /\ delivered' = deliver(delivered, chunk)

\* The same, with the records kept in the order the stream delivered them.
ReadChunkRecorded(chunks) ==
  /\ pc = "read"
  /\ \E chunk \in chunks :
       Read(chunk) /\ delivered' = [delivered EXCEPT !.records = @ \o chunk]

\* The reader meets malformed framing in a chunk: nextRecord() throws.
ReadMalformed ==
  /\ Taken
  /\ pc = "read"
  /\ size # 0
  /\ Reject(Error("malformed record", 0))
  /\ UNCHANGED <<size, locked, nRecords, msgEventsByChannel, start, end,
                 detached, call, seenSchemas, delivered, kept>>
  /\ UNCHANGED <<sceneVars, renderVars>>

\* read() resolves with done: the buckets are published, the summary is
\* built and initialize() resolves.
ReadDone ==
  /\ Taken
  /\ pc = "read"
  /\ pc' = "done"
  /\ msgEventsByChannel' = Some(messagesByChannel)
  /\ start' = Some(startOf(Locals))
  /\ end' = Some(endOf(Locals))
  /\ initialization' =
       [status |-> "fulfilled", value |-> Some(InitializationOf(Locals)),
        error |-> None]
  /\ UNCHANGED <<size, locked, nRecords, locals, detached, call, seenSchemas, delivered, kept>>
  /\ UNCHANGED <<sceneVars, renderVars>>

\* MessageIterator without the test of #msgEventsByChannel: before
\* initialize() completed it yields nothing and throws nothing.
MessageIteratorUnguarded(args) ==
  /\ Taken
  /\ call' =
       IF ~IsSome(msgEventsByChannel)
       THEN [op |-> "messageIterator", args |-> Some(args), error |-> None,
             value |-> <<>>]
       ELSE [op |-> "messageIterator", args |-> Some(args), error |-> None,
             value |-> resultMessages(args)]
  /\ UNCHANGED <<pc, size, locked, nRecords, locals, msgEventsByChannel, start,
                 end, initialization, detached, seenSchemas, delivered, kept>>
  /\ UNCHANGED <<sceneVars, renderVars>>

\* messageIterator(args), run to the end of its sequence. The call keeps the
\* arguments only where the code got to read them.
MessageIterator(args) ==
  /\ Taken
  /\ call' =
       IF ~IsSome(msgEventsByChannel)
       THEN [op |-> "messageIterator", args |-> None,
             error |-> Some(NotCompleted), value |-> <<>>]
       ELSE [op |-> "messageIterator", args |-> Some(args), error |-> None,
             value |-> resultMessages(args)]
  /\ UNCHANGED <<pc, size, locked, nRecords, locals, msgEventsByChannel, start,
                 end, initialization, detached, seenSchemas, delivered, kept>>
  /\ UNCHANGED <<sceneVars, renderVars>>

\* getBackfillMessages(args).
GetBackfillMessages(args) ==
  /\ Taken
  /\ call' =
       IF ~IsSome(msgEventsByChannel)
       THEN [op |-> "getBackfillMessages", args |-> None,
             error |-> Some(NotCompleted), value |-> <<>>]
       ELSE [op |-> "getBackfillMessages", args |-> Some(args), error |-> None,
             value |-> backfillMessages(args)]
  /\ UNCHANGED <<pc, size, locked, nRecords, locals, msgEventsByChannel, start,
                 end, initialization, detached, seenSchemas, delivered, kept>>
  /\ UNCHANGED <<sceneVars, renderVars>>

\* The events the last query handed out.
Handed ==
  IF call.op = "messageIterator"
  THEN {call.value[i].msgEvent : i \in 1..Len(call.value)}
  ELSE {call.value[i] : i \in 1..Len(call.value)}

\* The caller takes the outcome of its query before it makes the next one. It
\* may post the events it got to the main thread and transfer their payload
\* buffers, which detaches them.
Deliver ==
  /\ call # NoCall
  /\ call' = NoCall
  /\ \/ detached' = detached \cup ({ev.message.buf : ev \in Handed} \ {0})
     \/ UNCHANGED detached
  /\ UNCHANGED <<pc, size, locked, nRecords, locals, msgEventsByChannel, start,
                 end, initialization, seenSchemas, delivered, kept>>
  /\ UNCHANGED <<sceneVars, renderVars>>

\* What the caller sees of the events of a result: each payload as the bytes
\* its buffer holds now.
Observed(value) ==
  [k \in 1..Len(value) |->
     LET ev == IF call.op = "messageIterator" THEN value[k].msgEvent ELSE value[k]
     IN [ev EXCEPT !.message = Bytes(ev.message)]]

\* The caller takes what a messageIterator call yielded and keeps it, to
\* compare a later call with the same arguments against it.
Keep ==
  /\ call.op = "messageIterator"
  /\ call.error = None
  /\ kept = None
  /\ kept' = Some([args |-> Get(call.args), value |-> Observed(call.value)])
  /\ call' = NoCall
  /\ UNCHANGED <<pc, size, locked, nRecords, locals, msgEventsByChannel, start,
                 end, initialization, detached, seenSchemas, delivered>>
  /\ UNCHANGED <<sceneVars, renderVars>>

Next ==
  \/ Initialize
  \/ LoadDecompressHandlers
  \/ ReadChunk(Chunks)
  \/ ReadMalformed
  \/ ReadDone
  \/ \E args \in IteratorArgs : MessageIterator(args)
  \/ \E args \in BackfillArgs : GetBackfillMessages(args)
  \/ Deliver

Spec == Init /\ [][Next]_vars

\* Repeated queries: streams of schemaless channels without publisher
\* metadata and their messages, and a caller that keeps an outcome.
RepeatRecords ==
  {r \in ChannelRecords :
     r.schemaId = 0 /\ r.messageEncoding = "json" /\ r.metadata = {}}
    \cup MessageRecords

RepeatChunks == UNION {[1..n -> RepeatRecords] : n \in 0..MaxChunk}

RepeatIteratorArgs ==
  {a \in IteratorArgs : a.topics \in {{"/a"}, Topics}}

RepeatBackfillArgs == {a \in BackfillArgs : a.topics = Topics}

NextRepeat ==
  \/ Initialize
  \/ LoadDecompressHandlers
  \/ ReadChunk(RepeatChunks)
  \/ ReadMalformed
  \/ ReadDone
  \/ \E args \in RepeatIteratorArgs : MessageIterator(args)
  \/ \E args \in RepeatBackfillArgs : GetBackfillMessages(args)
  \/ Deliver
  \/ Keep

SpecRepeat == Init /\ [][NextRepeat]_vars

\* Ingestion alone: initialize() on every stream, delivered a record at a
\* time, no query, with the record of what the stream delivered. The streams
\* include those with a Schema record of id 0.
IngestChunks ==
  {<<>>} \cup {<<record>> : record \in Records \cup ReservedSchemaRecords}

NextIngest ==
  \/ Initialize
  \/ LoadDecompressHandlers
  \/ ReadChunkWatched(IngestChunks)
  \/ ReadMalformed
  \/ ReadDone

SpecIngest == Init /\ [][NextIngest]_vars

\* Ties: streams of schemaless channels and of messages that differ in
\* their payload and share receive times, so that the order of messages of
\* equal receive time shows in what messageIterator yields.
TieRecords ==
  {r \in ChannelRecords :
     r.schemaId = 0 /\ r.messageEncoding = "json" /\ r.metadata = {}}
    \cup [type : {"Message"}, channelId : ChannelIds, logTime : {1, 5},
          publishTime : {2}, data : {<<7>>, <<8>>}]

TieChunks == UNION {[1..n -> TieRecords] : n \in 0..MaxChunk}

NextTies ==
  \/ Initialize
  \/ LoadDecompressHandlers
  \/ ReadChunk(TieChunks)
  \/ ReadMalformed
  \/ ReadDone
  \/ \E args \in RepeatIteratorArgs : MessageIterator(args)
  \/ Deliver

SpecTies == Init /\ [][NextTies]_vars

\* Chunkings: initialize() on streams of Schema, Channel and Message records
\* cut into chunks of up to MaxChunk records each, with the sequence of the
\* records kept.
ChunkedRecords ==
  SchemaRecords
    \cup {r \in ChannelRecords :
            r.topic = "/a" /\ r.messageEncoding = "json" /\ r.metadata = {}}
    \cup {r \in MessageRecords : r.logTime \in {1, 5}}

ChunkedChunks == UNION {[1..n -> ChunkedRecords] : n \in 0..MaxChunk}

NextChunked ==
  \/ Initialize
  \/ LoadDecompressHandlers
  \/ ReadChunkRecorded(ChunkedChunks)
  \/ ReadDone

SpecChunked == Init /\ [][NextChunked]_vars

(* ---------------------- PlanningSceneExtension ------------------------ *)
(* The extension that turns planning scene messages into one renderable  *)
(* per collision object. The model keeps the renderables map, the hash   *)
(* cache, whether a current scene is stored, the two fetch flags and the  *)
(* get_planning_scene calls in flight; colours, visibility and the errors *)
(* reported to the settings tree are left out.                            *)

\* CollisionObjectOperation.
ADD == 0

REMOVE == 1

APPEND == 2

MOVE == 3

\* A collision object of a message: `header` is its header.frame_id, `pose`
\* is "origin" or "moved" (finite coordinates) or "nan" (a coordinate that is
\* not finite), `primitives` the number of its shapes; None is undefined.
CollisionObject(id, operation, header, pose, primitives) ==
  [id |-> id, operation |-> operation, header |-> header, pose |-> pose,
   primitives |-> primitives]

WorldObjects ==
  {CollisionObject(id, ADD, Some("world"), Some("origin"), 1) : id \in ObjectIds}
    \cup {CollisionObject("a", ADD, Some("world"), Some("nan"), 1),
          CollisionObject("b", ADD, Some("world"), None, 1),
          CollisionObject("a", REMOVE, None, None, 0),
          CollisionObject("a", MOVE, Some("world"), Some("moved"), 0),
          CollisionObject("a", APPEND, Some("world"), Some("origin"), 1)}

AttachedObjects ==
  {[link_name |-> Some("gripper"),
    object |-> Some(CollisionObject("b", ADD, Some("world"), Some("origin"), 1))],
   [link_name |-> Some("gripper"),
    object |-> Some(CollisionObject("a", ADD, None, None, 1))]}

\* scene.world.collision_objects, or None for a scene without world.
Worlds ==
  {None} \cup {Some(objects) :
                 objects \in UNION {[1..n -> WorldObjects] : n \in 0..MaxObjects}}

\* scene.robot_state.attached_collision_objects, or None without robot_state.
RobotStates ==
  {None, Some(<<>>)} \cup {Some(<<attached>>) : attached \in AttachedObjects}

\* The messages: at most MaxObjects collision objects, attached ones included.
PlanningScenes ==
  {scene \in [is_diff : BOOLEAN, world : Worlds, robot_state : RobotStates] :
     (IF IsSome(scene.world) THEN Len(Get(scene.world)) ELSE 0)
       + (IF IsSome(scene.robot_state) THEN Len(Get(scene.robot_state)) ELSE 0)
       <= MaxObjects}

\* What get_planning_scene resolves to: no usable response, or a scene.
ServiceResponses ==
  {None}
    \cup {Some(scene) : scene \in
            {s \in PlanningScenes :
               /\ ~s.is_diff
               /\ s.robot_state = None
               /\ s.world \in {None, Some(<<>>),
                               Some(<<CollisionObject("a", ADD, Some("world"),
                                                      Some("origin"), 1)>>)}}}

\* The keys of a map over ObjectIds.
Keys(m) == {id \in ObjectIds : m[id] # None}

\* The fields of the extension, and the ids of the renderables disposed.
This ==
  [renderables |-> renderables, objectHashes |-> objectHashes,
   currentScene |-> currentScene, initialSceneFetched |-> initialSceneFetched,
   fetchingInitialScene |-> fetchingInitialScene,
   serviceClient |-> serviceClient, pending |-> pending, disposed |-> {}]

Become(x) ==
  /\ renderables' = x.renderables
  /\ objectHashes' = x.objectHashes
  /\ currentScene' = x.currentScene
  /\ initialSceneFetched' = x.initialSceneFetched
  /\ fetchingInitialScene' = x.fetchingInitialScene
  /\ serviceClient' = x.serviceClient
  /\ pending' = x.pending

\* The hash of a collision object made full: id, operation, frame, pose and
\* shapes.
computeObjectHash(object) ==
  <<object.id, object.operation, Get(object.header), Get(object.pose),
    object.primitives>>

\* handleRemoveOperation leaving the object's hash in the cache.
handleRemoveOperationKeepingHash(x, objectId) ==
  IF x.renderables[objectId] = None THEN x
  ELSE [x EXCEPT !.renderables[objectId] = None,
                 !.disposed = @ \cup {objectId}]

\* REMOVE: the renderable is taken from the scene, disposed and deleted, and
\* so is the object's hash.
handleRemoveOperation(x, objectId) ==
  IF x.renderables[objectId] = None THEN x
  ELSE [x EXCEPT !.renderables[objectId] = None,
                 !.objectHashes[objectId] = None,
                 !.disposed = @ \cup {objectId}]

\* ADD: throws (nothing changes) without frame or pose or with a pose that
\* is not finite; else replaces the renderable of the id by a new one.
handleAddOperation(x, object, isAttachedObject) ==
  IF object.header = None \/ object.pose = None THEN x
  ELSE IF Get(object.pose) = "nan" THEN x
  ELSE LET removed == IF x.renderables[object.id] # None
                      THEN handleRemoveOperation(x, object.id) ELSE x
       IN [removed EXCEPT
             !.renderables[object.id] =
                Some([frameId |-> Get(object.header),
                      pose |-> Get(object.pose),
                      isAttachedObject |-> isAttachedObject])]

\* MOVE: throws unless the renderable exists, the object has no geometry and
\* has a frame and a finite pose; else the renderable takes frame and pose.
handleMoveOperation(x, object) ==
  IF x.renderables[object.id] = None \/ object.primitives > 0 THEN x
  ELSE IF object.header = None \/ object.pose = None THEN x
  ELSE IF Get(object.pose) = "nan" THEN x
  ELSE [x EXCEPT
          !.renderables[object.id] =
             Some([Get(@) EXCEPT !.pose = Get(object.pose),
                                 !.frameId = Get(object.header)])]

\* APPEND: throws unless the renderable exists and the object has geometry;
\* else the renderable is updated with the merged object.
handleAppendOperation(x, object) ==
  IF x.renderables[object.id] = None \/ object.primitives = 0 THEN x
  ELSE [x EXCEPT
          !.renderables[object.id] =
             Some([Get(@) EXCEPT
                     !.pose = IF IsSome(object.pose) THEN Get(object.pose) ELSE @,
                     !.frameId = IF IsSome(object.header)
                                 THEN Get(object.header) ELSE @])]

\* One collision object of a message. For ADD, APPEND and MOVE the object is
\* made full (which throws without header or pose) and skipped if its hash is
\* the cached one; every throw is caught here and only reported.
applyCollisionObjectOperation(x, object, isAttachedObject) ==
  LET operation == object.operation
      hashed == operation \in {ADD, APPEND, MOVE}
      full == IsSome(object.header) /\ IsSome(object.pose)
      hasObjectChanged ==
        x.objectHashes[object.id] # Some(computeObjectHash(object))
      changed ==
        IF hashed
        THEN [x EXCEPT !.objectHashes[object.id] = Some(computeObjectHash(object))]
        ELSE x
  IN IF hashed /\ ~full THEN x
     ELSE IF hashed /\ ~hasObjectChanged THEN x
     ELSE CASE operation = ADD -> handleAddOperation(changed, object, isAttachedObject)
            [] operation = REMOVE -> handleRemoveOperation(changed, object.id)
            [] operation = APPEND -> handleAppendOperation(changed, object)
            [] operation = MOVE -> handleMoveOperation(changed, object)
            [] OTHER -> changed

\* The loop over scene.world.collision_objects.
RECURSIVE applyCollisionObjects(_, _)
applyCollisionObjects(x, objects) ==
  IF objects = <<>> THEN x
  ELSE applyCollisionObjects(
         applyCollisionObjectOperation(x, Head(objects), FALSE), Tail(objects))

\* An attached object is applied with its link as frame.
processAttachedCollisionObject(x, attachedObject) ==
  applyCollisionObjectOperation(
    x, [Get(attachedObject.object) EXCEPT !.header = attachedObject.link_name],
    TRUE)

RECURSIVE processRobotState(_, _)
processRobotState(x, attached) ==
  IF attached = <<>> THEN x
  ELSE processRobotState(
         IF IsSome(Head(attached).object) /\ IsSome(Head(attached).link_name)
         THEN processAttachedCollisionObject(x, Head(attached))
         ELSE x,
         Tail(attached))

\* Every renderable is taken from the scene and disposed; the map and the
\* hash cache are cleared.
removeAllRenderables(x) ==
  [x EXCEPT !.renderables = NoRenderables,
            !.objectHashes = NoRenderables,
            !.disposed = @ \cup Keys(x.renderables)]

\* replaceEntireScene without the clearing of the existing renderables.
replaceEntireSceneOnTop(x, scene) ==
  LET stored == [x EXCEPT !.currentScene = TRUE]
      world == IF IsSome(scene.world)
               THEN applyCollisionObjects(stored, Get(scene.world)) ELSE stored
  IN IF IsSome(scene.robot_state)
     THEN processRobotState(world, Get(scene.robot_state)) ELSE world

replaceEntireScene(x, scene) ==
  LET stored == [removeAllRenderables(x) EXCEPT !.currentScene = TRUE]
      world == IF IsSome(scene.world)
               THEN applyCollisionObjects(stored, Get(scene.world)) ELSE stored
  IN IF IsSome(scene.robot_state)
     THEN processRobotState(world, Get(scene.robot_state)) ELSE world

\* validateCollisionObjects does not throw: ADD and MOVE objects have a frame
\* and a pose.
validateCollisionObjects(objects) ==
  \A i \in 1..Len(objects) :
    objects[i].operation \in {ADD, MOVE} =>
      IsSome(objects[i].header) /\ IsSome(objects[i].pose)

validatePlanningSceneMessage(scene) ==
  LET hasCollisionObjects == IsSome(scene.world) /\ Len(Get(scene.world)) > 0
      hasRobotState == IsSome(scene.robot_state)
  IN IF scene.is_diff
     THEN /\ hasCollisionObjects \/ hasRobotState
          /\ hasCollisionObjects => validateCollisionObjects(Get(scene.world))
     ELSE /\ IsSome(scene.world)
          /\ hasCollisionObjects => validateCollisionObjects(Get(scene.world))

hasInitialScene(x) == x.initialSceneFetched /\ x.currentScene

\* fetchInitialScene() up to its await: the call to the service is made.
fetchInitialScene(x) ==
  IF ~x.serviceClient THEN x
  ELSE IF x.fetchingInitialScene THEN x
  ELSE [x EXCEPT !.fetchingInitialScene = TRUE, !.pending = @ + 1]

applyDifferentialUpdate(x, scene) ==
  IF ~x.currentScene
  THEN IF ~x.fetchingInitialScene /\ ~x.initialSceneFetched
       THEN fetchInitialScene(x)
       ELSE replaceEntireScene(x, scene)
  ELSE LET world == IF IsSome(scene.world)
                    THEN applyCollisionObjects(x, Get(scene.world)) ELSE x
       IN IF IsSome(scene.robot_state)
          THEN processRobotState(world, Get(scene.robot_state)) ELSE world

handlePlanningSceneMessage(x, scene) ==
  IF layers = "none" THEN x
  ELSE IF ~validatePlanningSceneMessage(scene) THEN x
  ELSE IF scene.is_diff THEN applyDifferentialUpdate(x, scene)
  ELSE replaceEntireScene(x, scene)

\* No message is being looked at.
Quiet == handled = None

\* The subscription hands a message to the handler; `handled` keeps the
\* message, what the extension held before it, and what was disposed.
HandlePlanningSceneMessage(scene) ==
  /\ Quiet
  /\ LET x == handlePlanningSceneMessage(This, scene)
     IN /\ x.pending <= MaxPending
        /\ Become(x)
        /\ handled' = Some([message |-> scene, renderables |-> renderables,
                            currentScene |-> currentScene,
                            disposed |-> x.disposed])
  /\ UNCHANGED layers
  /\ UNCHANGED <<sourceVars, renderVars>>

\* The message looked at is let go.
Return ==
  /\ ~Quiet
  /\ handled' = None
  /\ UNCHANGED <<layers, serviceClient, currentScene, initialSceneFetched,
                 fetchingInitialScene, renderables, objectHashes, pending>>
  /\ UNCHANGED <<sourceVars, renderVars>>

StartFrame ==
  /\ Quiet
  /\ LET hasVisibleLayers == layers = "visible"
         idle == ~initialSceneFetched /\ ~fetchingInitialScene
         x == IF idle /\ hasVisibleLayers THEN fetchInitialScene(This)
              ELSE IF idle /\ Keys(renderables) # {}
              THEN [removeAllRenderables(This) EXCEPT
                      !.currentScene = FALSE, !.initialSceneFetched = FALSE]
              ELSE This
     IN /\ x.pending <= MaxPending
        /\ Become(x)
  /\ UNCHANGED <<layers, handled>>
  /\ UNCHANGED <<sourceVars, renderVars>>

\* A get_planning_scene call resolves: without a valid scene the catch and
\* the finally clear the flags; with one the scene replaces what is shown.
ServiceResolves(response) ==
  /\ Quiet
  /\ pending > 0
  /\ LET settled == [This EXCEPT !.pending = @ - 1]
         x == IF response = None \/ ~validatePlanningSceneMessage(Get(response))
              THEN [settled EXCEPT !.initialSceneFetched = FALSE]
              ELSE [replaceEntireScene([settled EXCEPT !.currentScene = TRUE],
                                       Get(response))
                      EXCEPT !.initialSceneFetched = TRUE]
     IN Become([x EXCEPT !.fetchingInitialScene = FALSE])
  /\ UNCHANGED <<layers, handled>>
  /\ UNCHANGED <<sourceVars, renderVars>>

\* ServiceRejects without the finally block: the fetching flag stays set.
ServiceRejectsStillFetching ==
  /\ Quiet
  /\ pending > 0
  /\ Become([This EXCEPT !.pending = @ - 1, !.initialSceneFetched = FALSE])
  /\ UNCHANGED <<layers, handled>>
  /\ UNCHANGED <<sourceVars, renderVars>>

\* A get_planning_scene call rejects: the catch and the finally run.
ServiceRejects ==
  /\ Quiet
  /\ pending > 0
  /\ Become([This EXCEPT !.pending = @ - 1, !.initialSceneFetched = FALSE,
                         !.fetchingInitialScene = FALSE])
  /\ UNCHANGED <<layers, handled>>
  /\ UNCHANGED <<sourceVars, renderVars>>

RetryFetchInitialScene ==
  /\ Quiet
  /\ pending < MaxPending
  /\ Become(fetchInitialScene([This EXCEPT !.initialSceneFetched = FALSE,
                                           !.fetchingInitialScene = FALSE]))
  /\ UNCHANGED <<layers, handled>>
  /\ UNCHANGED <<sourceVars, renderVars>>

RemoveAllRenderables ==
  /\ Quiet
  /\ Become(removeAllRenderables(This))
  /\ UNCHANGED <<layers, handled>>
  /\ UNCHANGED <<sourceVars, renderVars>>

\* The custom layer action: a layer is added unless there is one.
HandleAddPlanningScene ==
  /\ Quiet
  /\ layers' = IF layers = "none" THEN "visible" ELSE layers
  /\ UNCHANGED <<serviceClient, currentScene, initialSceneFetched,
                 fetchingInitialScene, renderables, objectHashes, pending,
                 handled>>
  /\ UNCHANGED <<sourceVars, renderVars>>

\* The layer's "delete" action: the last layer goes, and with it the
\* renderables, the current scene and the flags; the hash cache stays.
DeleteLayer ==
  /\ Quiet
  /\ layers # "none"
  /\ layers' = "none"
  /\ renderables' = NoRenderables
  /\ currentScene' = FALSE
  /\ initialSceneFetched' = FALSE
  /\ fetchingInitialScene' = FALSE
  /\ UNCHANGED <<serviceClient, objectHashes, pending, handled>>
  /\ UNCHANGED <<sourceVars, renderVars>>

\* The layer's visibility toggle is saved to the config.
SetLayerVisible(visible) ==
  /\ Quiet
  /\ layers # "none"
  /\ layers' = IF visible THEN "visible" ELSE "hidden"
  /\ UNCHANGED <<serviceClient, currentScene, initialSceneFetched,
                 fetchingInitialScene, renderables, objectHashes, pending,
                 handled>>
  /\ UNCHANGED <<sourceVars, renderVars>>

\* The layer's topic is changed.
ChangeTopic ==
  /\ Quiet
  /\ layers # "none"
  /\ Become(removeAllRenderables([This EXCEPT !.currentScene = FALSE,
                                              !.initialSceneFetched = FALSE,
                                              !.fetchingInitialScene = FALSE]))
  /\ UNCHANGED <<layers, handled>>
  /\ UNCHANGED <<sourceVars, renderVars>>

\* dispose(): the hash cache, the service client, the current scene and the
\* flags are reset, and the base class disposes and forgets the renderables.
\* A call that is in flight stays in flight.
Dispose ==
  /\ Quiet
  /\ Become([This EXCEPT !.objectHashes = NoRenderables,
                         !.serviceClient = FALSE,
                         !.currentScene = FALSE,
                         !.initialSceneFetched = FALSE,
                         !.fetchingInitialScene = FALSE,
                         !.renderables = NoRenderables])
  /\ UNCHANGED <<layers, handled>>
  /\ UNCHANGED <<sourceVars, renderVars>>

NextScene ==
  \/ \E scene \in PlanningScenes : HandlePlanningSceneMessage(scene)
  \/ Return
  \/ StartFrame
  \/ \E response \in ServiceResponses : ServiceResolves(response)
  \/ ServiceRejects
  \/ RetryFetchInitialScene
  \/ RemoveAllRenderables
  \/ HandleAddPlanningScene
  \/ DeleteLayer
  \/ \E visible \in BOOLEAN : SetLayerVisible(visible)
  \/ ChangeTopic
  \/ Dispose

\* The extension beside an engine that is left alone.
InitScene == Init /\ size = 0

SpecScene == InitScene /\ [][NextScene]_vars

(* ----------------------- initRenderStateBuilder ----------------------- *)
(* The function that turns a panel's input into its next render state, or *)
(* into undefined when there is nothing new to render. The model keeps    *)
(* the watched fields didSeek, parameters, sharedPanelState and services; *)
(* a value is undefined (None) or Some object, and objects are compared   *)
(* by identity, as !== does.                                              *)

\* The constant map used for a player without parameters.
EmptyParameters == "EmptyParameters"

\* The array that `sortedServices ?? []` makes in the call under way, and
\* such an array made by an earlier call: two objects, both empty.
NewArray == "[] of this call"

OldArray == "[] of an earlier call"

\* The services of the render state as a later call finds them.
Later(services) == IF services = Some(NewArray) THEN Some(OldArray) ELSE services

WatchableFields == {"didSeek", "parameters", "sharedPanelState", "services"}

\* The inputs: the watched fields, playerState.activeData.lastSeekTime and
\* .parameters, sharedPanelState and sortedServices.
RenderInputs ==
  [watchedFields : SUBSET WatchableFields,
   lastSeekTime : {None, Some(1)},
   parameters : {None, Some("parameters")},
   sharedPanelState : {None, Some("shared")},
   sortedServices : {None, Some("services")}]

updateRenderStateField(b, field, newValue, prevValue) ==
  IF newValue # prevValue
  THEN [b EXCEPT !.prevRenderState[field] = newValue, !.shouldRender = TRUE]
  ELSE b

\* What buildRenderState gives to updateRenderStateField as the new value of
\* a field.
newValueOf(b, field, input) ==
  CASE field = "didSeek" -> Some(b.prevSeekTime # input.lastSeekTime)
    [] field = "parameters" ->
         IF IsSome(input.parameters) THEN input.parameters
         ELSE Some(EmptyParameters)
    [] field = "sharedPanelState" -> input.sharedPanelState
    [] field = "services" ->
         IF IsSome(input.sortedServices) THEN input.sortedServices
         ELSE Some(NewArray)

\* The watch steps of buildRenderState, in their order.
buildRenderState(b, input) ==
  LET watched(field) == field \in input.watchedFields
      none == [b EXCEPT !.shouldRender = FALSE,
                        !.prevRenderState.services = Later(@)]
      didSeek ==
        IF watched("didSeek")
        THEN [updateRenderStateField(none, "didSeek",
                                     newValueOf(none, "didSeek", input),
                                     none.prevRenderState.didSeek)
                EXCEPT !.prevSeekTime = input.lastSeekTime]
        ELSE none
      parameters ==
        IF watched("parameters")
        THEN updateRenderStateField(didSeek, "parameters",
                                    newValueOf(didSeek, "parameters", input),
                                    didSeek.prevRenderState.parameters)
        ELSE didSeek
      sharedPanelState ==
        IF watched("sharedPanelState")
        THEN updateRenderStateField(parameters, "sharedPanelState",
                                    newValueOf(parameters, "sharedPanelState", input),
                                    parameters.prevSharedPanelState)
        ELSE parameters
  IN IF watched("services")
     THEN updateRenderStateField(sharedPanelState, "services",
                                 newValueOf(sharedPanelState, "services", input),
                                 sharedPanelState.prevRenderState.services)
     ELSE sharedPanelState

\* The panel calls the function: `built` keeps the input, the closure the
\* call found, and what the call returned.
BuildRenderState(input) ==
  /\ built = None
  /\ LET b == buildRenderState(builder, input)
     IN /\ builder' = b
        /\ built' = Some([input |-> input, before |-> builder,
                          result |-> IF b.shouldRender
                                     THEN Some(b.prevRenderState) ELSE None])
  /\ UNCHANGED <<sourceVars, sceneVars>>

\* The panel has rendered, or has found nothing to render.
Rendered ==
  /\ built # None
  /\ built' = None
  /\ UNCHANGED builder
  /\ UNCHANGED <<sourceVars, sceneVars>>

NextRender ==
  \/ \E input \in RenderInputs : BuildRenderState(input)
  \/ Rendered

SpecRender == InitScene /\ [][NextRender]_vars

(* ------------------------- claims: vocabulary ------------------------ *)

\* A time as its count of nanoseconds.
Nanos(t) == t.sec * NanoPerSec + t.nsec

\* The buckets the queries read, empty before initialize() published them.
Buckets == IF IsSome(msgEventsByChannel) THEN Get(msgEventsByChannel) ELSE <<>>

\* The places <<bucket, index>> of the ingested message events.
Positions ==
  UNION {{<<i, j>> : j \in 1..Len(Buckets[i][2])} : i \in 1..Len(Buckets)}

EventAt(p) == Buckets[p[1]][2][p[2]]

ChannelAt(p) == Buckets[p[1]][1]

\* What an event says, whichever buffer holds its payload.
Content(ev) ==
  <<ev.topic, Nanos(ev.receiveTime), Nanos(ev.publishTime), ev.message.bytes,
    ev.sizeInBytes, ev.schemaName>>

IterCall == call.op = "messageIterator" /\ call.error = None

BackfillCall == call.op = "getBackfillMessages" /\ call.error = None

Args == Get(call.args)

\* The range a messageIterator call asks for, in nanoseconds.
Lo == IF IsSome(Args.start) THEN Nanos(Get(Args.start)) ELSE Nanos(Get(start))

Hi == IF IsSome(Args.end) THEN Nanos(Get(Args.end)) ELSE Nanos(Get(end))

Selected(p) ==
  /\ EventAt(p).topic \in Args.topics
  /\ Lo <= Nanos(EventAt(p).receiveTime)
  /\ Nanos(EventAt(p).receiveTime) <= Hi

\* The result messages that are the event at p of the buckets.
YieldsOf(p) ==
  {k \in 1..Len(call.value) :
     /\ call.value[k].connectionId = ChannelAt(p)
     /\ Content(call.value[k].msgEvent) = Content(EventAt(p))}

\* The selected events that say the same as the one at p, on its channel.
TwinsOf(p) ==
  {q \in Positions :
     /\ Selected(q)
     /\ ChannelAt(q) = ChannelAt(p)
     /\ Content(EventAt(q)) = Content(EventAt(p))}

ReceiveNanos(msgEvents) ==
  [j \in 1..Len(msgEvents) |-> Nanos(msgEvents[j].receiveTime)]

(* ------------------------------ claims ------------------------------- *)

\* C1: after a successful initialize(), messageIterator yields every ingested
\* message event whose topic is in the requested set and whose receive time is
\* in [start, end] (the global bounds by default) exactly once: as many result
\* messages say what the event says as there are selected events saying it.
C1_YieldsEverySelectedOnce ==
  IterCall =>
    \A p \in Positions :
      Selected(p) => Cardinality(YieldsOf(p)) = Cardinality(TwinsOf(p))

\* All topics, no range, two channels with a message each: all are yielded.
C1_Witness ==
  /\ IterCall
  /\ Args = [topics |-> Topics, start |-> None, end |-> None]
  /\ Len(Buckets) = 2
  /\ \A i \in 1..Len(Buckets) : Len(Buckets[i][2]) >= 1
  /\ Len(call.value) = Cardinality(Positions)
  /\ Hi > Lo

\* C2: the sequence messageIterator yields is non-decreasing in receive time,
\* whatever the order of the messages in the file or across the channels.
C2_NonDecreasingReceiveTime ==
  call.op = "messageIterator" =>
    \A k \in 1..(Len(call.value) - 1) :
      Nanos(call.value[k].msgEvent.receiveTime)
        <= Nanos(call.value[k + 1].msgEvent.receiveTime)

\* One channel whose messages came latest, earliest, middle: yielded in order.
C2_Witness ==
  /\ IterCall
  /\ Len(Buckets) = 1
  /\ ReceiveNanos(Buckets[1][2]) = <<NanoPerSec + 3, 1, 5>>
  /\ [k \in 1..Len(call.value) |-> Nanos(call.value[k].msgEvent.receiveTime)]
       = <<1, 5, NanoPerSec + 3>>

\* C3: every event messageIterator(topics, start, end) yields is an ingested
\* event with start <= receive time <= end and a topic in the requested set.
C3_YieldsOnlySelected ==
  IterCall =>
    \A k \in 1..Len(call.value) :
      /\ call.value[k].msgEvent.topic \in Args.topics
      /\ Lo <= Nanos(call.value[k].msgEvent.receiveTime)
      /\ Nanos(call.value[k].msgEvent.receiveTime) <= Hi
      /\ \E p \in Positions : Selected(p) /\ k \in YieldsOf(p)

\* A call with both ends given that yields an event and leaves out an earlier
\* and a later one of the same topic.
C3_Witness ==
  /\ IterCall
  /\ IsSome(Args.start)
  /\ IsSome(Args.end)
  /\ call.value # <<>>
  /\ \E p, q \in Positions :
       /\ EventAt(p).topic \in Args.topics
       /\ EventAt(q).topic \in Args.topics
       /\ Nanos(EventAt(p).receiveTime) < Lo
       /\ Nanos(EventAt(q).receiveTime) > Hi
\* The ingested events of topic T that a backfill at the asked time may return.
Qualifying(T) ==
  {p \in Positions :
     /\ EventAt(p).topic = T
     /\ Nanos(EventAt(p).receiveTime) <= Nanos(Args.time)}

\* The places of the returned events of topic T.
ReturnedOf(T) == {k \in 1..Len(call.value) : call.value[k].topic = T}

\* C4: getBackfillMessages(topics, t) returns, for each requested topic with a
\* message at or before t, the message with the greatest receive time among
\* those, for every order of the messages in the file.
C4_BackfillReturnsLatest ==
  BackfillCall =>
    \A T \in Args.topics :
      Qualifying(T) # {} =>
        \E k \in ReturnedOf(T) :
          \A p \in Qualifying(T) :
            Nanos(EventAt(p).receiveTime) <= Nanos(call.value[k].receiveTime)

\* C5: no event getBackfillMessages(topics, t) returns has a receive time
\* after t, and each one is an ingested event of a requested topic.
C5_BackfillNotAfterTime ==
  BackfillCall =>
    \A k \in 1..Len(call.value) :
      /\ Nanos(call.value[k].receiveTime) <= Nanos(Args.time)
      /\ call.value[k].topic \in Args.topics
      /\ \E p \in Positions : Content(EventAt(p)) = Content(call.value[k])

\* An event is returned for a topic that also has a message after the time.
C5_Witness ==
  /\ BackfillCall
  /\ \E k \in 1..Len(call.value) : \E p \in Positions :
       /\ EventAt(p).topic = call.value[k].topic
       /\ Nanos(EventAt(p).receiveTime) > Nanos(Args.time)

\* C6: getBackfillMessages returns exactly one event for each requested topic
\* that has a message at or before the time, and none for any other topic; it
\* does so without an error.
C6_BackfillOnePerTopic ==
  call.op = "getBackfillMessages" /\ IsSome(msgEventsByChannel) =>
    /\ call.error = None
    /\ \A T \in Topics :
         Cardinality(ReturnedOf(T)) =
           IF T \in Args.topics /\ Qualifying(T) # {} THEN 1 ELSE 0

\* Both topics asked; one has two messages in time, the other has none.
C6_Witness ==
  /\ BackfillCall
  /\ Args.topics = Topics
  /\ Len(call.value) = 1
  /\ Cardinality(Qualifying(call.value[1].topic)) >= 2
  /\ \E T \in Topics : Qualifying(T) = {}

\* C7: a messageIterator call with the arguments of an earlier call on the
\* same initialized engine yields a sequence deep-equal to the earlier one,
\* whatever queries and transfers happened between them.
C7_RepeatedIteratorEqual ==
  (IterCall /\ IsSome(kept) /\ Get(kept).args = Args) =>
    Observed(call.value) = Get(kept).value

\* A call made after the kept one, with its arguments, yields two events or
\* more from two channels.
C7_Witness ==
  /\ IterCall
  /\ IsSome(kept)
  /\ Get(kept).args = Args
  /\ Len(call.value) >= 2
  /\ Len(Buckets) = 2

\* C8: a query on an engine whose initialize() has not completed successfully
\* fails with "initialization not completed" and produces no message.
C8_QueryBeforeInitializedFails ==
  (call.op # "none" /\ pc # "done") =>
    /\ call.error = Some(Error("initialization not completed", 0))
    /\ call.value = <<>>

\* A messageIterator call made while initialize() awaits a chunk, after it
\* has ingested a message.
C8_Witness ==
  /\ pc = "read"
  /\ messageCount >= 1
  /\ call.op = "messageIterator"
  /\ IsSome(call.error)

SizeError == Error("unindexed files are limited to 1GB", 0)

\* C9: with a declared size above 1 GiB initialize() fails with the size-limit
\* error before the stream's reader is taken or any record is processed; a
\* declared size of at most 1 GiB is not rejected with that error.
C9_SizeCeiling ==
  /\ (size > 1024 * 1024 * 1024 /\ pc # "idle") =>
       /\ pc = "failed"
       /\ initialization =
            [status |-> "rejected", value |-> None, error |-> Some(SizeError)]
       /\ ~locked
       /\ nRecords = 0
       /\ msgEventsByChannel = None
  /\ size <= 1024 * 1024 * 1024 => initialization.error # Some(SizeError)

\* initialize() has rejected a stream that declares more than 1 GiB.
C9_Witness ==
  /\ size > 1024 * 1024 * 1024
  /\ pc = "failed"
  /\ initialization.error = Some(SizeError)

\* Two Schema records with one id and different content were delivered.
DifferingSchemasSeen ==
  \E a, b \in seenSchemas : a.id = b.id /\ a # b

\* C10: once the stream has delivered a Schema record whose id was already
\* seen with different content, initialize() has failed, wherever in the
\* stream that record came.
C10_DifferingSchemaFails ==
  DifferingSchemasSeen =>
    /\ pc = "failed"
    /\ initialization.status = "rejected"
    /\ msgEventsByChannel = None

\* initialize() has failed on the second of two differing Schema records.
C10_Witness ==
  /\ DifferingSchemasSeen
  /\ pc = "failed"
  /\ initialization.error = Some(Error("differing schemas for id", 1))

\* C11 as stated: once the stream has delivered two Channel records with one
\* id and different content, initialize() has failed.
C11_DifferingChannelFails ==
  delivered.redefined # {} =>
    pc = "failed" /\ initialization.status = "rejected"

\* C11, amended: once the stream has delivered a Channel record that differs
\* from the first one of its id, initialize() has failed, unless that id is in
\* the errored set (the decoding plan of its first record failed), where the
\* later records of the id are skipped.
C11_RegisteredChannelRedefinitionFails ==
  \A id \in delivered.redefined :
    id \notin channelIdsWithErrors =>
      /\ pc = "failed"
      /\ initialization.status = "rejected"
      /\ msgEventsByChannel = None

\* initialize() has failed on the third record of the stream, a Channel
\* record that differs from the registered one of its id.
C11_Witness ==
  /\ delivered.redefined = {1}
  /\ delivered.orphans = {}
  /\ nRecords = 3
  /\ pc = "failed"
  /\ initialization.error = Some(Error("differing channel infos for id", 1))

\* C12 as stated: once the stream has delivered a Channel record with a
\* nonzero schema id before any Schema record of that id, initialize() has
\* failed.
C12_UnresolvedSchemaFails ==
  delivered.unresolved # {} =>
    pc = "failed" /\ initialization.status = "rejected"

\* C12, amended: once the stream has delivered a Channel record with a nonzero
\* schema id before any Schema record of that id, initialize() has failed,
\* unless the channel id is in the errored set, where the record is skipped.
C12_UnresolvedSchemaOfNewChannelFails ==
  \A id \in delivered.unresolved :
    id \notin channelIdsWithErrors =>
      /\ pc = "failed"
      /\ initialization.status = "rejected"
      /\ msgEventsByChannel = None

\* initialize() has failed on the first Channel record of channel 2, which
\* names schema 1, in a stream that had delivered a channel and no schema.
C12_Witness ==
  /\ delivered.unresolved = {2}
  /\ delivered.redefined = {}
  /\ \E c \in delivered.channels : c.id = 1
  /\ seenSchemas = {}
  /\ pc = "failed"
  /\ initialization.error =
       Some(Error("channel with schema id but no prior schema", 1))

\* C13: once the stream has delivered a Message record before any Channel
\* record of its channel id (the id is then neither registered nor errored),
\* initialize() has failed, whatever came after.
C13_MessageBeforeChannelFails ==
  delivered.orphans # {} =>
    /\ pc = "failed"
    /\ initialization.status = "rejected"
    /\ msgEventsByChannel = None

\* initialize() has failed on a message of channel 2 in a stream that had
\* delivered a Channel record of channel 1 only.
C13_Witness ==
  /\ delivered.orphans = {2}
  /\ delivered.channels # {}
  /\ \A c \in delivered.channels : c.id = 1
  /\ pc = "failed"
  /\ initialization.error =
       Some(Error("message for channel with no prior channel info", 2))

\* The places of the error alerts about channel `id` in a list of alerts.
ErrorAlertsOf(as, id) ==
  {k \in 1..Len(as) : as[k].severity = "error" /\ as[k].channel = id}

\* The number of events in the first n buckets of a map of buckets.
RECURSIVE BucketTotal(_, _)
BucketTotal(m, n) ==
  IF n = 0 THEN 0 ELSE BucketTotal(m, n - 1) + Len(m[n][2])

\* The number of Message records delivered for the channel ids in `ids`.
RECURSIVE DeliveredMessages(_)
DeliveredMessages(ids) ==
  IF ids = {} THEN 0
  ELSE LET id == CHOOSE x \in ids : TRUE
       IN delivered.messages[id] + DeliveredMessages(ids \ {id})

\* The receive times, in nanoseconds, of the events in the buckets that
\* initialize() fills.
IngestedNanos ==
  UNION {{Nanos(messagesByChannel[i][2][j].receiveTime) :
            j \in 1..Len(messagesByChannel[i][2])} :
         i \in 1..Len(messagesByChannel)}

\* startTime and endTime are the least and the greatest receive time in the
\* buckets, and undefined while the buckets are empty.
BoundsOfBuckets ==
  IF IngestedNanos = {}
  THEN startTime = None /\ endTime = None
  ELSE /\ IsSome(startTime) /\ IsSome(endTime)
       /\ Nanos(Get(startTime)) \in IngestedNanos
       /\ Nanos(Get(endTime)) \in IngestedNanos
       /\ \A t \in IngestedNanos :
            Nanos(Get(startTime)) <= t /\ t <= Nanos(Get(endTime))

\* C14: while initialize() reads and when it is done, each channel id in the
\* errored set has exactly one error alert, which names the topic of the first
\* Channel record of the id, and no other id has one; an errored id has neither
\* an entry nor a bucket; the messages counted are those in the buckets, that
\* is the delivered ones of the ids that are not errored, and the time bounds
\* are those of the buckets; the result carries the same single alert per
\* errored id.
C14_ErroredChannelReportedOnceAndDropped ==
  pc \in {"read", "done"} =>
    /\ \A id \in ChannelIds :
         /\ Cardinality(ErrorAlertsOf(alerts, id))
              = IF id \in channelIdsWithErrors THEN 1 ELSE 0
         /\ \A k \in ErrorAlertsOf(alerts, id) :
              \E c \in delivered.channels : c.id = id /\ c.topic = alerts[k].topic
         /\ pc = "done" =>
              Cardinality(ErrorAlertsOf(Get(initialization.value).alerts, id))
                = IF id \in channelIdsWithErrors THEN 1 ELSE 0
    /\ \A id \in channelIdsWithErrors :
         ~MapHas(messagesByChannel, id) /\ ~MapHas(channelInfoById, id)
    /\ messageCount = BucketTotal(messagesByChannel, Len(messagesByChannel))
    /\ messageCount = DeliveredMessages(ChannelIds \ channelIdsWithErrors)
    /\ BoundsOfBuckets

\* initialize() is done with a stream of four records: the failing Channel
\* record of channel 1, a differing Channel record of channel 1, and two
\* messages of channel 1; there is one alert and no message was ingested.
C14_Witness ==
  /\ pc = "done"
  /\ nRecords = 4
  /\ channelIdsWithErrors = {1}
  /\ delivered.redefined = {1}
  /\ delivered.messages[1] = 2
  /\ Len(Get(initialization.value).alerts) = 2
  /\ messageCount = 0
  /\ start = Some(ZeroTime)

\* A list of alerts without the error alerts of the channels.
OtherAlerts(as) == SelectSeq(as, LAMBDA a : a.severity # "error")

\* The errors with which initialize() fails before or between the records.
StreamErrors ==
  {Some(Error("unindexed files are limited to 1GB", 0)),
   Some(Error("decompress handlers failed to load", 0)),
   Some(Error("malformed record", 0))}

\* C15: the ids in the errored set are those whose first Channel record has
\* no decoding plan; while initialize() reads and when it is done, the
\* buckets, entries, schemas, count, bounds, profile and metadata are those of
\* the stream without the Channel and Message records of these ids, and so
\* are the result's topics, statistics, datatypes, publishers and bounds; the
\* alerts differ by the error alerts only. initialize() fails on a record
\* only where it fails on the stream without them, with the same error.
C15_FailingChannelLeavesOthersUntouched ==
  LET w == delivered.without
  IN /\ pc \in {"read", "done"} =>
          /\ channelIdsWithErrors = delivered.failing
          /\ w.thrown = None
          /\ messagesByChannel = w.messagesByChannel
          /\ channelInfoById = w.channelInfoById
          /\ schemasById = w.schemasById
          /\ messageCount = w.messageCount
          /\ startTime = w.startTime /\ endTime = w.endTime
          /\ profile = w.profile /\ metadata = w.metadata
          /\ OtherAlerts(alerts) = w.alerts
     /\ pc = "done" =>
          LET got == Get(initialization.value)
              other == InitializationOf(w)
          IN /\ [got EXCEPT !.alerts = OtherAlerts(@)] = other
             /\ Get(msgEventsByChannel) = w.messagesByChannel
             /\ Len(got.alerts) = Len(other.alerts) + Cardinality(delivered.failing)
     /\ (pc = "failed" /\ initialization.error \notin StreamErrors) =>
          w.thrown = initialization.error

\* initialize() is done with a stream of the failing Channel record of one
\* channel, a message of it, and another channel with a message: the result
\* has the one topic, counts the one message and has two alerts.
C15_Witness ==
  /\ pc = "done"
  /\ Cardinality(delivered.failing) = 1
  /\ \E id \in delivered.failing : delivered.messages[id] = 1
  /\ messageCount = 1
  /\ Len(Get(initialization.value).topics) = 1
  /\ Len(Get(initialization.value).alerts) = 2

\* C16: once initialize() has failed it has rejected without a result, the
\* engine holds neither buckets nor bounds, and a query made then fails with
\* "initialization not completed" and produces no message.
C16_FailedInitializeStaysUninitialized ==
  pc = "failed" =>
    /\ initialization.status = "rejected"
    /\ initialization.value = None
    /\ IsSome(initialization.error)
    /\ msgEventsByChannel = None
    /\ start = None /\ end = None
    /\ call.op # "none" =>
         call.error = Some(Error("initialization not completed", 0))
           /\ call.value = <<>>

\* initialize() failed on the last record of a full stream, a message without
\* channel info, and a getBackfillMessages call made after that has failed.
C16_Witness ==
  /\ pc = "failed"
  /\ nRecords = MaxRecords
  /\ initialization.error =
       Some(Error("message for channel with no prior channel info", 2))
  /\ call.op = "getBackfillMessages"
  /\ call.error = Some(NotCompleted)

\* The places of the alerts with `message` in a list of alerts.
AlertsSaying(as, message) == {k \in 1..Len(as) : as[k].message = message}

NoMessagesText == "This file contains no messages."

UnindexedText ==
  "This file is unindexed. Unindexed files may have degraded performance."

LongDurationText == "This file has an abnormally long duration."

\* C17: on a stream that declares size 0 and yields no record, initialize()
\* does not fail in reading; when it is done the result has no topic, start
\* and end {sec: 0, nsec: 0}, the "no messages" warning, neither the
\* "unindexed" nor the long-duration warning, and a messageIterator call
\* yields nothing and throws nothing.
C17_EmptyStream ==
  size = 0 =>
    /\ nRecords = 0
    /\ pc = "failed" =>
         initialization.error = Some(Error("decompress handlers failed to load", 0))
    /\ pc = "done" =>
         LET got == Get(initialization.value)
         IN /\ initialization.status = "fulfilled"
            /\ got.topics = <<>>
            /\ got.start = [sec |-> 0, nsec |-> 0]
            /\ got.end = [sec |-> 0, nsec |-> 0]
            /\ AlertsSaying(got.alerts, NoMessagesText) # {}
            /\ AlertsSaying(got.alerts, UnindexedText) = {}
            /\ AlertsSaying(got.alerts, LongDurationText) = {}
            /\ call.op = "messageIterator" =>
                 call.error = None /\ call.value = <<>>

\* initialize() is done on the empty stream and messageIterator was called
\* with all topics.
C17_Witness ==
  /\ size = 0
  /\ pc = "done"
  /\ initialization.status = "fulfilled"
  /\ IterCall
  /\ Args.topics = Topics
  /\ call.value = <<>>

\* C18: the result of a successful initialize() has exactly one of the "no
\* messages" and the "unindexed" warning, once: the first if and only if the
\* buckets hold no event, that is if no Message record of a channel that is
\* not errored was delivered, and the second otherwise.
C18_ExactlyOneAdvisoryWarning ==
  pc = "done" =>
    LET got == Get(initialization.value).alerts
        none == Cardinality(AlertsSaying(got, NoMessagesText))
        unindexed == Cardinality(AlertsSaying(got, UnindexedText))
        ingested == BucketTotal(Buckets, Len(Buckets))
    IN /\ none + unindexed = 1
       /\ none = 1 <=> ingested = 0
       /\ ingested = DeliveredMessages(ChannelIds \ channelIdsWithErrors)

\* initialize() is done with a stream whose only messages are of an errored
\* channel: the result has the "no messages" warning after the error alert.
C18_Witness ==
  /\ pc = "done"
  /\ \E id \in channelIdsWithErrors : delivered.messages[id] = 2
  /\ Len(Buckets) = 1
  /\ LET got == Get(initialization.value).alerts
     IN /\ Len(got) = 2
        /\ got[1].severity = "error"
        /\ got[2].message = NoMessagesText

\* The receive times, in nanoseconds, of the events in the published buckets.
PublishedNanos == {Nanos(EventAt(p).receiveTime) : p \in Positions}

\* C19: after a successful initialize() that ingested a message, start is the
\* least and end the greatest receive time of the events in the buckets, so
\* start <= end and every event lies between them; with no event both are
\* {sec: 0, nsec: 0}. The result carries the same start and end.
C19_BoundsAreMinAndMax ==
  pc = "done" =>
    /\ Get(initialization.value).start = Get(start)
    /\ Get(initialization.value).end = Get(end)
    /\ IF PublishedNanos = {}
       THEN /\ Get(start) = [sec |-> 0, nsec |-> 0]
            /\ Get(end) = [sec |-> 0, nsec |-> 0]
       ELSE /\ Nanos(Get(start)) \in PublishedNanos
            /\ Nanos(Get(end)) \in PublishedNanos
            /\ \A t \in PublishedNanos :
                 Nanos(Get(start)) <= t /\ t <= Nanos(Get(end))
            /\ Nanos(Get(start)) <= Nanos(Get(end))
            /\ Get(start).nsec < NanoPerSec /\ Get(end).nsec < NanoPerSec

\* Three messages came in the order middle, latest (past a second boundary),
\* earliest: start is the last one's time and end the second one's.
C19_Witness ==
  /\ pc = "done"
  /\ Len(Buckets) = 1
  /\ ReceiveNanos(Buckets[1][2]) = <<5, NanoPerSec + 3, 1>>
  /\ Get(start) = [sec |-> 0, nsec |-> 1]
  /\ Get(end) = [sec |-> 1, nsec |-> 3]

\* The sum of numMessages over the first n entries of a topicStats map.
RECURSIVE StatsTotal(_, _)
StatsTotal(m, n) ==
  IF n = 0 THEN 0 ELSE StatsTotal(m, n - 1) + m[n][2].numMessages

\* C20: for every topic T of the result of initialize(), topicStats[T]
\* .numMessages is the number of ingested events of topic T, also when several
\* channels publish on T, and the sum over the topics is the number of
\* ingested events.
C20_TopicStatsCountPerTopic ==
  pc = "done" =>
    LET stats == Get(initialization.value).topicStats
    IN /\ \A k \in 1..Len(stats) :
            stats[k][2].numMessages
              = Cardinality({p \in Positions : EventAt(p).topic = stats[k][1]})
       /\ StatsTotal(stats, Len(stats)) = Cardinality(Positions)

\* The ids of the registered channels in the order of their first Channel
\* record: those of the delivered ones that are not errored.
RegisteredOrder ==
  SelectSeq(delivered.order, LAMBDA id : id \notin channelIdsWithErrors)

\* The first Channel record the stream delivered for `id`.
FirstChannel(id) == CHOOSE c \in delivered.channels : c.id = id

\* The topic entry of a channel whose first record is c.
TopicEntryOf(c) ==
  LET schema == delivered.resolved[c.id]
  IN [name |-> c.topic,
      messageEncoding |-> c.messageEncoding,
      schemaName |-> IF IsSome(schema) THEN Some(Get(schema).name) ELSE None,
      schemaData |-> IF IsSome(schema) THEN Some(Get(schema).data) ELSE None,
      schemaEncoding |-> IF IsSome(schema) THEN Some(Get(schema).encoding) ELSE None]

\* C21: the topic list of the result has one entry for each channel id whose
\* first Channel record was registered, in the order in which these records
\* came, and none for an errored id; the entry has the record's topic and
\* message encoding and the name, encoding and data of the Schema record that
\* had come with its schema id when the Channel record came (none if none
\* had).
C21_TopicsPerRegisteredChannel ==
  pc = "done" =>
    LET topics == Get(initialization.value).topics
    IN /\ Len(topics) = Len(RegisteredOrder)
       /\ \A k \in 1..Len(topics) :
            topics[k] = TopicEntryOf(FirstChannel(RegisteredOrder[k]))

\* initialize() is done with a stream of a schema, channel 2 with the schema,
\* the failing record of channel 1 and a schemaless channel 1 record: the
\* topic list has the entry of channel 2 only.
C21_Witness ==
  /\ pc = "done"
  /\ delivered.order = <<2, 1>>
  /\ channelIdsWithErrors = {1}
  /\ delivered.redefined = {1}
  /\ Len(Get(initialization.value).topics) = 1
  /\ IsSome(Get(initialization.value).topics[1].schemaName)

\* The decimal string of a channel id.
DecimalString(id) == CASE id = 1 -> "1" [] id = 2 -> "2"

\* The publisher a Channel record names: the value of its "callerid" metadata
\* key, and the decimal string of its id without one.
PublisherOf(c) ==
  IF \E pair \in c.metadata : pair[1] = "callerid"
  THEN (CHOOSE pair \in c.metadata : pair[1] = "callerid")[2]
  ELSE DecimalString(c.id)

\* The publishers of topic T: those of the registered channels with topic T.
PublishersOf(T) ==
  {PublisherOf(FirstChannel(RegisteredOrder[k])) :
     k \in {j \in 1..Len(RegisteredOrder) :
              FirstChannel(RegisteredOrder[j]).topic = T}}

\* C22: for every topic T, publishersByTopic[T] of the result is the set of
\* the publishers of the registered channels with topic T; a topic without a
\* registered channel has no entry, so errored channels add nothing.
C22_PublishersByTopic ==
  pc = "done" =>
    LET publishers == Get(initialization.value).publishersByTopic
    IN /\ \A T \in Topics :
            MapGet(publishers, T)
              = IF PublishersOf(T) = {} THEN None ELSE Some(PublishersOf(T))
       /\ \A k \in 1..Len(publishers) : publishers[k][1] \in Topics

\* Two registered channels of one topic, one with "callerid" and one without:
\* the topic has the two publishers "pub" and "2".
C22_Witness ==
  /\ pc = "done"
  /\ Len(RegisteredOrder) = 2
  /\ Get(initialization.value).publishersByTopic = << <<"/a", {"pub", "2"}>> >>

\* a is b or the beginning of b.
IsPrefix(a, b) == Len(a) <= Len(b) /\ SubSeq(b, 1, Len(a)) = a

\* C23: in every step of initialize() that does not fail, each bucket that
\* exists stays where it is in the map, under its channel id, and its content
\* after the step is its content before it with events appended at the end.
C23_BucketsOnlyGrow ==
  [][(pc = "read" /\ pc' \in {"read", "done"}) =>
       /\ Len(messagesByChannel) <= Len(messagesByChannel')
       /\ \A i \in 1..Len(messagesByChannel) :
            /\ messagesByChannel'[i][1] = messagesByChannel[i][1]
            /\ IsPrefix(messagesByChannel[i][2], messagesByChannel'[i][2])
       /\ pc' = "done" => msgEventsByChannel' = Some(messagesByChannel)]_vars

\* The Channel record of channel 1 came again as it was, and the bucket of
\* channel 1 holds two events.
C23_Witness ==
  /\ pc = "read"
  /\ <<"Channel", 1>> \in delivered.repeated
  /\ \E i \in 1..Len(messagesByChannel) :
       messagesByChannel[i][1] = 1 /\ Len(messagesByChannel[i][2]) = 2

\* The keys of a map, in its order.
KeysOf(m) == [i \in 1..Len(m) |-> m[i][1]]

\* C24: while initialize() reads and when it is done, the buckets and the
\* channel entries are those of the registered channel ids, in the order of
\* their first Channel records; no Message record came before the first
\* Channel record of its id; the bucket of an id holds one event per Message
\* record of the id, each with the topic of the id's first Channel record
\* and the name of the schema resolved for it ("" if none).
C24_EventsBelongToRegisteredChannels ==
  pc \in {"read", "done"} =>
    /\ KeysOf(messagesByChannel) = RegisteredOrder
    /\ KeysOf(channelInfoById) = RegisteredOrder
    /\ delivered.orphans = {}
    /\ \A i \in 1..Len(messagesByChannel) :
         LET id == messagesByChannel[i][1]
             bucket == messagesByChannel[i][2]
             schema == delivered.resolved[id]
         IN /\ Len(bucket) = delivered.messages[id]
            /\ \A j \in 1..Len(bucket) :
                 /\ bucket[j].topic = FirstChannel(id).topic
                 /\ bucket[j].schemaName
                      = IF IsSome(schema) THEN Get(schema).name ELSE ""
    /\ pc = "done" => msgEventsByChannel = Some(messagesByChannel)

\* An errored channel, and a registered channel with a schema and a message:
\* the one bucket holds the one event, with the schema's name.
C24_Witness ==
  /\ pc = "read"
  /\ Cardinality(channelIdsWithErrors) = 1
  /\ Len(messagesByChannel) = 1
  /\ Len(messagesByChannel[1][2]) = 1
  /\ messagesByChannel[1][2][1].schemaName = "S"

\* C25: a step of initialize() in which a Schema or Channel record comes again
\* as it came first does not fail and leaves the alerts, the schemas, the
\* channel entries, the buckets, the count and the bounds as they were; and
\* once a Schema record, or a Channel record of a channel that is not
\* errored, has come again with different content, initialize() has failed.
C25_RepeatIsNoOpMutationFails ==
  /\ [][(pc = "read" /\ delivered'.repeats # delivered.repeats) =>
          /\ pc' = "read"
          /\ UNCHANGED <<locals, initialization, msgEventsByChannel>>]_vars
  /\ [](DifferingSchemasSeen => pc = "failed")
  /\ [](\A id \in delivered.redefined :
          id \notin channelIdsWithErrors => pc = "failed")

\* A Schema record and the Channel record of a channel with that schema have
\* both come twice, and initialize() reads on without an alert.
C25_Witness ==
  /\ pc = "read"
  /\ delivered.repeated = {<<"Schema", 1>>, <<"Channel", 1>>}
  /\ delivered.repeats = 2
  /\ IsSome(delivered.resolved[1])
  /\ Len(channelInfoById) = 1
  /\ alerts = <<>>

\* C26 as stated: a messageIterator call with an empty topic set, or made
\* while the engine has no time bounds, yields nothing and throws nothing.
C26_EmptyTopicsOrNoBoundsYieldNothing ==
  call.op = "messageIterator" =>
    /\ (IsSome(call.args) /\ Args.topics = {}) =>
         call.error = None /\ call.value = <<>>
    /\ (start = None \/ end = None) =>
         call.error = None /\ call.value = <<>>

\* C26, amended: on an engine whose initialize() is done a messageIterator
\* call throws nothing, and yields nothing if its topic set is empty; the
\* engine has time bounds exactly when it has buckets, and a call made while
\* it has none throws "initialization not completed".
C26_EmptyTopicsYieldNothing ==
  /\ IsSome(start) <=> IsSome(msgEventsByChannel)
  /\ IsSome(end) <=> IsSome(msgEventsByChannel)
  /\ call.op = "messageIterator" =>
       /\ pc = "done" =>
            /\ call.error = None
            /\ Args.topics = {} => call.value = <<>>
       /\ (start = None \/ end = None) =>
            /\ call.error = Some(Error("initialization not completed", 0))
            /\ call.value = <<>>

\* A messageIterator call with no topic and no range on an engine that holds
\* events has yielded nothing.
C26_Witness ==
  /\ pc = "done"
  /\ IterCall
  /\ Args = [topics |-> {}, start |-> None, end |-> None]
  /\ Cardinality(Positions) >= 2
  /\ call.value = <<>>

\* C27: a Channel record with schema id 0 registers whether or not a Schema
\* record has come (it is registered or, if its decoding plan failed, in the
\* errored set), and every event in the bucket of such a channel has the
\* empty string as schema name, whatever Schema records were delivered.
C27_SchemalessChannelHasEmptySchemaName ==
  pc \in {"read", "done"} =>
    /\ \A c \in delivered.channels :
         c.schemaId = 0 =>
           \/ \E i \in 1..Len(channelInfoById) : channelInfoById[i][1] = c.id
           \/ c.id \in channelIdsWithErrors
    /\ \A i \in 1..Len(messagesByChannel) :
         LET id == messagesByChannel[i][1]
             bucket == messagesByChannel[i][2]
         IN FirstChannel(id).schemaId = 0 =>
              \A j \in 1..Len(bucket) : bucket[j].schemaName = ""

\* C28: a messageIterator or getBackfillMessages call, and the transfer of
\* what it returned, leave the buckets and the bounds as they were; every
\* event handed out is a copy with a payload buffer of its own and the
\* content of an event in a bucket, so no transfer invalidates the payload
\* of an event in a bucket and a later query reads what was ingested.
C28_QueriesCopyAndLeaveEngineUnchanged ==
  /\ [][call' # call => UNCHANGED <<msgEventsByChannel, start, end>>]_vars
  /\ [](\A p \in Positions : EventAt(p).message.buf \notin detached)
  /\ [](call.op # "none" =>
          \A ev \in Handed :
            /\ \A p \in Positions : EventAt(p).message.buf # ev.message.buf
            /\ \E p \in Positions : Content(EventAt(p)) = Content(ev))

\* After an earlier messageIterator call that yielded events, a
\* getBackfillMessages call has returned events of two channels.
C28_Witness ==
  /\ BackfillCall
  /\ Len(call.value) = 2
  /\ Len(Buckets) = 2
  /\ IsSome(kept)
  /\ Len(Get(kept).value) >= 1

\* The message the handler has just processed.
Message == Get(handled).message

\* The collision objects of the scene's world, and its attached objects.
WorldOf(scene) == IF IsSome(scene.world) THEN Get(scene.world) ELSE <<>>

AttachedOf(scene) ==
  IF IsSome(scene.robot_state) THEN Get(scene.robot_state) ELSE <<>>

\* The collision objects of a scene in the order of the message: those of
\* the world, then the objects of the attached ones.
ObjectsOf(scene) ==
  WorldOf(scene)
    \o [i \in 1..Len(AttachedOf(scene)) |-> Get(AttachedOf(scene)[i].object)]

AddIds(scene) ==
  {WorldOf(scene)[i].id :
     i \in {j \in 1..Len(WorldOf(scene)) : WorldOf(scene)[j].operation = ADD}}

AttachedIds(scene) ==
  {Get(AttachedOf(scene)[i].object).id : i \in 1..Len(AttachedOf(scene))}

NamedIds(scene) ==
  {ObjectsOf(scene)[i].id : i \in 1..Len(ObjectsOf(scene))}

\* The ids with an ADD object of a finite pose that no later REMOVE object
\* of the message names.
LastingIds(scene) ==
  LET objects == ObjectsOf(scene)
  IN {objects[i].id :
        i \in {j \in 1..Len(objects) :
                 /\ objects[j].operation = ADD
                 /\ objects[j].pose \in {Some("origin"), Some("moved")}
                 /\ \A k \in (j + 1)..Len(objects) :
                      ~(objects[k].operation = REMOVE
                          /\ objects[k].id = objects[j].id)}}

\* The handler has processed a valid scene that is not differential, with a
\* planning scene layer configured.
FullSceneHandled ==
  /\ handled # None
  /\ layers # "none"
  /\ ~Message.is_diff
  /\ validatePlanningSceneMessage(Message)

\* The handler has processed a valid differential scene while a current
\* scene existed, with a planning scene layer configured.
DifferentialSceneHandled ==
  /\ handled # None
  /\ layers # "none"
  /\ Message.is_diff
  /\ validatePlanningSceneMessage(Message)
  /\ Get(handled).currentScene

InvalidResponses ==
  {response \in ServiceResponses :
     response = None \/ ~validatePlanningSceneMessage(Get(response))}

\* A get_planning_scene call settles without a valid scene.
FetchFails ==
  \/ ServiceRejects
  \/ \E response \in InvalidResponses : ServiceResolves(response)

\* C31: when the get_planning_scene call rejects, or resolves to a response
\* without a valid scene, then after it has settled hasInitialScene() is
\* false and the fetching flag is clear, and with a service client a
\* fetchInitialScene() makes a new call.
C31_FailedFetchCanBeRetried ==
  [][FetchFails =>
       /\ ~hasInitialScene(This')
       /\ ~fetchingInitialScene'
       /\ serviceClient' => fetchInitialScene(This').pending = pending' + 1]_vars

\* A call made while a scene was shown has failed, and startFrame has made
\* the next one.
C31_Witness ==
  /\ pending = 1
  /\ fetchingInitialScene
  /\ ~initialSceneFetched
  /\ currentScene
  /\ layers = "visible"

\* C34: at most one get_planning_scene call is in flight at any time.
C34_AtMostOneCallInFlight == pending <= 1

\* C35: a get_planning_scene call that resolves after dispose() (only
\* dispose() takes the service client away) has no effect: it creates no
\* renderable, does not set the current scene, and hasInitialScene() stays
\* false.
C35_ResolveAfterDisposeHasNoEffect ==
  [][(~serviceClient /\ \E response \in ServiceResponses :
                          ServiceResolves(response)) =>
       /\ Keys(renderables') \subseteq Keys(renderables)
       /\ currentScene' = currentScene
       /\ ~hasInitialScene(This')]_vars

\* C36: after a differential scene of one APPEND object (with geometry,
\* frame and pose) a renderable with the object's id exists, whether the id
\* had a renderable before (which is then extended) or not (the object is
\* then added).
C36_AppendAddsOrExtends ==
  (/\ DifferentialSceneHandled
   /\ Len(ObjectsOf(Message)) = 1
   /\ Len(WorldOf(Message)) = 1
   /\ WorldOf(Message)[1].operation = APPEND
   /\ WorldOf(Message)[1].primitives > 0)
    => renderables[WorldOf(Message)[1].id] # None

(***************************************************************************)
(* The order of messages of equal receive time.                            *)
(***************************************************************************)

\* What a result message says and on which channel.
Said(m) == <<m.connectionId, m.msgEvent.message.bytes>>

\* The result messages of receive time T, in the order they were yielded.
RECURSIVE TiesYielded(_, _)
TiesYielded(value, T) ==
  IF value = <<>> THEN <<>>
  ELSE (IF Nanos(Head(value).msgEvent.receiveTime) = T
        THEN <<Said(Head(value))>> ELSE <<>>)
       \o TiesYielded(Tail(value), T)

\* The events of one bucket with a requested topic and receive time T, in
\* file order.
RECURSIVE TiesOfBucket(_, _, _)
TiesOfBucket(channelId, msgEvents, T) ==
  IF msgEvents = <<>> THEN <<>>
  ELSE (IF Nanos(Head(msgEvents).receiveTime) = T
           /\ Head(msgEvents).topic \in Args.topics
        THEN <<<<channelId, Bytes(Head(msgEvents).message)>>>> ELSE <<>>)
       \o TiesOfBucket(channelId, Tail(msgEvents), T)

\* The same over buckets, in the order of `buckets`.
RECURSIVE TiesScanned(_, _)
TiesScanned(buckets, T) ==
  IF buckets = <<>> THEN <<>>
  ELSE TiesOfBucket(Head(buckets)[1], Head(buckets)[2], T)
       \o TiesScanned(Tail(buckets), T)

\* The buckets in ascending order of their channel ids.
RECURSIVE ByChannelId(_)
ByChannelId(buckets) ==
  IF buckets = <<>> THEN <<>>
  ELSE LET least == CHOOSE i \in 1..Len(buckets) :
                      \A j \in 1..Len(buckets) : buckets[i][1] <= buckets[j][1]
       IN <<buckets[least]>>
            \o ByChannelId([k \in 1..(Len(buckets) - 1) |->
                              IF k < least THEN buckets[k] ELSE buckets[k + 1]])

\* The receive times of the range asked for.
TieTimes == {T \in {1, 5} : Lo <= T /\ T <= Hi}

\* C33 as stated: the messages of equal receive time are yielded in
\* ascending order of channel id, and in file order within a channel.
C33_TiesInChannelIdOrder ==
  IterCall =>
    \A T \in TieTimes :
      TiesYielded(call.value, T) = TiesScanned(ByChannelId(Buckets), T)

\* C33: the messages of equal receive time are yielded in the scan order of
\* the buckets, which is the order in which their channels were registered,
\* and in file order within a channel.
C33_TiesInScanOrder ==
  IterCall =>
    \A T \in TieTimes :
      TiesYielded(call.value, T) = TiesScanned(Buckets, T)

\* Channel 2 was registered before channel 1, and the file holds a message
\* of channel 1 and then one of channel 2 with the same receive time:
\* channel 2's is yielded first.
C33_Witness ==
  /\ IterCall
  /\ Len(Buckets) = 2
  /\ Buckets[1][1] = 2
  /\ Buckets[1][2] # <<>>
  /\ Buckets[2][2] # <<>>
  /\ Buckets[2][2][1].message.buf < Buckets[1][2][1].message.buf
  /\ \E T \in TieTimes :
       /\ Len(TiesYielded(call.value, T)) = 2
       /\ TiesYielded(call.value, T)[1][1] = 2
       /\ TiesYielded(call.value, T)[2] = <<1, <<8>>>>

(***************************************************************************)
(* Queries against an initialize() that is under way.                      *)
(***************************************************************************)

\* C37: a query made while initialize() awaits the next chunk fails with
\* "initialization not completed"; whenever the engine has buckets to query
\* they are the complete ones and the bounds are the final ones, and only
\* then does a query succeed.
C37_QueriesSeeNoPartialIngestion ==
  /\ (call # NoCall /\ pc = "read") =>
       /\ call.error = Some(NotCompleted)
       /\ call.value = <<>>
  /\ IsSome(msgEventsByChannel) =>
       /\ pc = "done"
       /\ Get(msgEventsByChannel) = messagesByChannel
       /\ start = Some(startOf(Locals))
       /\ end = Some(endOf(Locals))
  /\ (IterCall \/ BackfillCall) => pc = "done"

\* A getBackfillMessages call made while initialize() awaits a chunk, after
\* it has ingested messages of two channels.
C37_Witness ==
  /\ pc = "read"
  /\ call.op = "getBackfillMessages"
  /\ call.error = Some(NotCompleted)
  /\ Len(messagesByChannel) = 2
  /\ messageCount >= 2
  /\ msgEventsByChannel = None

(***************************************************************************)
(* Chunk boundaries.                                                       *)
(***************************************************************************)

\* The locals after the records, processed one after the other up to the
\* first that throws, with no chunk boundary anywhere.
RECURSIVE IngestWhole(_, _)
IngestWhole(s, records) ==
  IF records = <<>> \/ IsSome(s.thrown) THEN s
  ELSE IngestWhole(processRecord(s, Head(records)), Tail(records))

Whole == IngestWhole(NewLocals, delivered.records)

\* C38: however the stream cut its records into chunks, initialize() fails
\* exactly when the record sequence makes processRecord throw, with that
\* error, and otherwise what it has ingested, what it publishes for the
\* queries (buckets and bounds) and what it resolves with are those of the
\* record sequence processed in one piece.
C38_ChunkingDoesNotMatter ==
  /\ IsSome(Whole.thrown) =>
       /\ pc = "failed"
       /\ initialization.status = "rejected"
       /\ initialization.error = Whole.thrown
  /\ (pc = "failed" /\ delivered.records # <<>>) => IsSome(Whole.thrown)
  /\ pc \in {"read", "done"} => Locals = Whole
  /\ pc = "done" =>
       /\ msgEventsByChannel = Some(Whole.messagesByChannel)
       /\ start = Some(startOf(Whole))
       /\ end = Some(endOf(Whole))
       /\ initialization =
            [status |-> "fulfilled", value |-> Some(InitializationOf(Whole)),
             error |-> None]

\* initialize() has resolved on a stream of a schema, a channel of it and
\* two messages.
C38_Witness ==
  /\ pc = "done"
  /\ Len(delivered.records) = 4
  /\ delivered.records[1].type = "Schema"
  /\ delivered.records[2].type = "Channel"
  /\ delivered.records[2].schemaId = 1
  /\ messageCount = 2

(***************************************************************************)
(* The registered and the errored channels during ingestion.               *)
(***************************************************************************)

\* The ids of the channels that have an entry.
RegisteredIds == {channelInfoById[i][1] : i \in 1..Len(channelInfoById)}

\* The ids of the channels that have a bucket.
BucketIds == {messagesByChannel[i][1] : i \in 1..Len(messagesByChannel)}

\* C39: no channel id is both registered and errored; while initialize()
\* reads, the errored set only grows; and a Channel record of an errored id,
\* whether or not a decoding plan can be built for it, fails nothing and
\* leaves the entries, the buckets and the errored set as they were.
C39_ErroredIdsStayUnregistered ==
  /\ [](RegisteredIds \cap channelIdsWithErrors = {})
  /\ [][(pc = "read" /\ pc' = "read") =>
          channelIdsWithErrors \subseteq channelIdsWithErrors']_vars
  /\ [][\A record \in ChannelRecords :
          (record.id \in channelIdsWithErrors /\ Read(<<record>>)) =>
            /\ pc' = "read"
            /\ channelIdsWithErrors' = channelIdsWithErrors
            /\ channelInfoById' = channelInfoById
            /\ messagesByChannel' = messagesByChannel]_vars

\* Channel 1 is errored and a differing Channel record of its id has come
\* since; channel 2 is registered; initialize() reads on.
C39_Witness ==
  /\ pc = "read"
  /\ channelIdsWithErrors = {1}
  /\ delivered.redefined = {1}
  /\ RegisteredIds = {2}
  /\ \E c \in delivered.channels : c.id = 1 /\ c.messageEncoding = "cbor"

\* C40: at every step of ingestion the buckets are those of the registered
\* channel ids and the message count is the number of events in the
\* buckets; so when initialize() is done the count is the number of events
\* the queries read, and the result says "no messages" exactly when there is
\* none.
C40_CountIsWhatTheBucketsHold ==
  /\ BucketIds = RegisteredIds
  /\ Len(messagesByChannel) = Cardinality(BucketIds)
  /\ messageCount = BucketTotal(messagesByChannel, Len(messagesByChannel))
  /\ pc = "done" =>
       /\ messageCount = Cardinality(Positions)
       /\ AlertsSaying(Get(initialization.value).alerts, NoMessagesText) # {}
            <=> Positions = {}

\* initialize() is done: channel 1 is errored and a message of it was
\* dropped, channel 2 is registered and its one message is in its bucket.
C40_Witness ==
  /\ pc = "done"
  /\ channelIdsWithErrors = {1}
  /\ delivered.messages[1] = 1
  /\ RegisteredIds = {2}
  /\ messageCount = 1
  /\ Cardinality(Positions) = 1

(***************************************************************************)
(* The render state builder.                                               *)
(***************************************************************************)

\* What the value of a field says, whichever object it is: the arrays made
\* by `sortedServices ?? []` are all the empty array.
ValueOf(field, value) ==
  IF field = "services" /\ value \in {Some(NewArray), Some(OldArray)}
  THEN Some("[]") ELSE value

\* The watched fields whose value in the call looked at differs from the one
\* in the render state built before.
ChangedFields ==
  LET input == Get(built).input
      before == Get(built).before
  IN {field \in input.watchedFields :
        ValueOf(field, newValueOf(before, field, input))
          # ValueOf(field, before.prevRenderState[field])}

\* C32: the function returns undefined when no watched field's value differs
\* from the render state built before, and the render state when one does.
C32_RendersOnlyOnChange ==
  built # None => (Get(built).result = None <=> ChangedFields = {})
====
